---- MODULE Spec2Model ----
(***************************************************************************)
(* Connection Pool Manager, Transaction Manager and graceful shutdown of   *)
(* the DBeaver MCP server, as a state machine.                             *)
(*                                                                         *)
(* The runtime is single-threaded and cooperative: a handler runs without  *)
(* interruption up to its next await, so every action below is one segment *)
(* of a handler between two awaits (or up to its return/throw).  A backend *)
(* call that is awaited may succeed or fail; both outcomes are enumerated. *)
(***************************************************************************)
EXTENDS Integers, Sequences, FiniteSets, TLC

\* ---- bounds of the model -------------------------------------------------
\* largest value of the millisecond clock
MaxTime == 1
\* number of clients that may be checked out of pools over a run
MaxTxns == 2
\* number of native pools that may be constructed over a run
MaxPools == 2

\* concurrent tool calls (each an independent asynchronous task)
TaskSlots == <<"t1", "t2">>
Tasks == {TaskSlots[i] : i \in 1..Len(TaskSlots)}
\* handlers started by SIGTERM / SIGINT
Handlers == {"h1", "h2"}
\* values of crypto.randomBytes(4), reduced to one: two ids generated in
\* the same millisecond are equal
RandVals == {0}
\* values of maxAgeMs handed to the stale sweep, in units of the clock
MaxAges == {0}

\* the connection descriptors of the workspace
Connections == {"pg", "my", "ms", "lite", "ora"}

\* connection.driver.toLowerCase(), as the set of keywords it contains
DriverOf(c) ==
  CASE c = "pg" -> {"postgres"}
    [] c = "my" -> {"mariadb"}
    [] c = "ms" -> {"sqlserver"}
    [] c = "ora" -> {"oracle"}
    [] OTHER    -> {"sqlite"}

\* the if / else-if chain on driver.includes(...) of getPool and
\* beginTransaction
DialectOf(c) ==
  IF "postgres" \in DriverOf(c) THEN "postgres"
  ELSE IF "mysql" \in DriverOf(c) \/ "mariadb" \in DriverOf(c) THEN "mysql"
  ELSE IF "mssql" \in DriverOf(c) \/ "sqlserver" \in DriverOf(c) THEN "mssql"
  ELSE "none"

\* `txn_${Date.now()}_${crypto.randomBytes(4).toString('hex')}`
generateTransactionId(t, r) == <<t, r>>

NoId == <<>>
TxnIds == {generateTransactionId(t, r) : t \in 0..MaxTime, r \in RandVals}

\* ---- statements and the checks on them ---------------------------------
\* A statement is the concatenation of a sequence of pieces: whitespace,
\* punctuation, and words or parts of words.  The pieces are chosen so that
\* a keyword of the patterns below occurs in a statement only as a whole
\* piece ("users" is the pieces "user", "s"), which makes a literal of a
\* regular expression match exactly at the pieces equal to it.
Spaces == {" ", "\n"}

Puncts == {";", ".", "*", "'"}

\* the keywords of the patterns, and parts of words that contain none
Words ==
  {"select", "with", "explain", "show", "describe", "desc", "pragma", "set",
   "search_path", "insert", "update", "delete", "from", "where", "drop",
   "database", "schema", "truncate", "table", "grant", "revoke", "create",
   "user", "alter", "shutdown", "restart", "analyze", "limit", "t", "s", "1"}

\* words in upper case
UpperWords == {"SELECT", "UPDATE", "WHERE"}

\* String.prototype.toLowerCase, piece by piece
LowerPiece(p) ==
  CASE p = "SELECT" -> "select"
    [] p = "UPDATE" -> "update"
    [] p = "WHERE"  -> "where"
    [] OTHER        -> p

toLowerCase(q) == [i \in 1..Len(q) |-> LowerPiece(q[i])]

\* \s
IsSpace(p) == p \in Spaces

\* \w+ (a piece that is a word or a part of one)
IsWord(p) == p \in Words \cup UpperWords

\* String.prototype.trim
RECURSIVE trimStart(_)
trimStart(q) ==
  IF q # <<>> /\ IsSpace(Head(q)) THEN trimStart(Tail(q)) ELSE q

RECURSIVE trimEnd(_)
trimEnd(q) ==
  IF q # <<>> /\ IsSpace(q[Len(q)]) THEN trimEnd(SubSeq(q, 1, Len(q) - 1)) ELSE q

trim(q) == trimEnd(trimStart(q))

\* the pieces i..j of t are all whitespace (\s*, and \s+ when i <= j)
AllSpace(t, i, j) == \A k \in i..j : IsSpace(t[k])

\* /a\s+b/ matches t at piece i
MatchTwoAt(t, i, a, b) ==
  /\ t[i] = a
  /\ \E j \in (i + 2)..Len(t) : AllSpace(t, i + 1, j - 1) /\ t[j] = b

\* /a\s+b/
MatchTwo(t, a, b) == \E i \in 1..Len(t) : MatchTwoAt(t, i, a, b)

\* /a\s+/
MatchSpaced(t, a) == \E i \in 1..(Len(t) - 1) : t[i] = a /\ IsSpace(t[i + 1])

\* /a/
MatchWord(t, a) == \E i \in 1..Len(t) : t[i] = a

\* /\s*;?\s*$/ matches the pieces of t from k on
MatchEnd(t, k) ==
  /\ \A i \in k..Len(t) : IsSpace(t[i]) \/ t[i] = ";"
  /\ Cardinality({i \in k..Len(t) : t[i] = ";"}) <= 1

\* /delete\s+from\s+\w+\s*;?\s*$/
MatchDelete(t) ==
  \E i \in 1..Len(t) :
    /\ MatchTwoAt(t, i, "delete", "from")
    /\ \E j \in (i + 2)..Len(t), k \in 1..Len(t), m \in 1..Len(t) :
         /\ AllSpace(t, i + 1, j - 1)
         /\ t[j] = "from"
         /\ j + 1 < k
         /\ AllSpace(t, j + 1, k - 1)
         /\ k <= m
         /\ \A w \in k..m : IsWord(t[w])
         /\ MatchEnd(t, m + 1)

\* /update\s+(?:(?!where).)*\s*;?\s*$/ : after update and whitespace, characters
\* none of which begins the word where and none of which is a line
\* terminator (the dot does not match one), up to the end of the statement
MatchUpdate(t) ==
  \E i \in 1..Len(t), j \in 1..Len(t), m \in 0..Len(t) :
    /\ t[i] = "update"
    /\ i < j
    /\ AllSpace(t, i + 1, j)
    /\ j <= m
    /\ \A k \in (j + 1)..m : t[k] # "where" /\ t[k] # "\n"
    /\ MatchEnd(t, m + 1)

\* the value null
null == "null"

\* dangerousPatterns, tested on the trimmed statement in lower case
Dangerous(t) ==
  \/ MatchTwo(t, "drop", "database")
  \/ MatchTwo(t, "drop", "schema")
  \/ MatchTwo(t, "truncate", "table")
  \/ MatchDelete(t)
  \/ MatchUpdate(t)
  \/ MatchSpaced(t, "grant")
  \/ MatchSpaced(t, "revoke")
  \/ MatchTwo(t, "create", "user")
  \/ MatchTwo(t, "drop", "user")
  \/ MatchTwo(t, "alter", "user")
  \/ MatchWord(t, "shutdown")
  \/ MatchWord(t, "restart")

validateQuery(query) ==
  IF trim(query) = <<>> THEN "Query cannot be empty"
  ELSE IF Dangerous(toLowerCase(trim(query)))
  THEN "Potentially dangerous query detected"
  ELSE null

\* /^a\s/
StartsSpaced(t, a) == Len(t) >= 2 /\ t[1] = a /\ IsSpace(t[2])

\* readOnlyPrefixes, tested on the trimmed statement in lower case
ReadOnlyPrefix(t) ==
  \/ StartsSpaced(t, "select")
  \/ t = <<"select">>
  \/ StartsSpaced(t, "with")
  \/ StartsSpaced(t, "explain")
  \/ StartsSpaced(t, "show")
  \/ StartsSpaced(t, "describe")
  \/ StartsSpaced(t, "desc")
  \/ StartsSpaced(t, "pragma")
  \/ (t # <<>> /\ MatchTwoAt(t, 1, "set", "search_path"))

\* enforceReadOnly without toLowerCase()
enforceReadOnlyCaseSensitive(query) ==
  IF trim(query) = <<>> THEN "Query cannot be empty"
  ELSE IF ReadOnlyPrefix(trim(query)) THEN null
  ELSE "Only read-only queries are allowed"

enforceReadOnly(query) ==
  IF trim(query) = <<>> THEN "Query cannot be empty"
  ELSE IF ReadOnlyPrefix(toLowerCase(trim(query))) THEN null
  ELSE "Only read-only queries are allowed"

VARIABLES
  now,          \* Date.now()
  workspace,    \* the connections configured in the DBeaver workspace
  pools,        \* ConnectionPoolManager.pools: connection id -> pool number, 0 = no entry
  constructed,  \* native pool constructor runs per connection id
  poolEnded,    \* pools on which end() / close() has been called
  clients,      \* every client checked out of a pool so far, in checkout order
  transactions, \* TransactionManager.transactions, in insertion order
  task,         \* tool calls in flight
  sweep,        \* the cleanupStaleTransactions run of the periodic timer
  handler,      \* shutdown handlers
  timer,        \* staleCleanupInterval
  exited,       \* process.exit was called
  readOnly,     \* DBEAVER_READ_ONLY === 'true'
  req,          \* the tool call outside the transaction tools in flight
  adhoc,        \* connections and subprocesses opened by DBeaverClient
  probe         \* a call of one of the checks on a statement or a name

vars == <<now, workspace, pools, constructed, poolEnded, clients, transactions,
          task, sweep, handler, timer, exited, readOnly, req, adhoc,
          probe>>

\* the state of the pool manager, the transaction manager and the shutdown
managerVars == <<now, workspace, pools, constructed, poolEnded, clients,
                 transactions, task, sweep, handler, timer, exited>>

\* the state of the tool calls that execute a statement on their own
\* connection
queryVars == <<readOnly, req, adhoc, probe>>

poolVars == <<workspace, pools, constructed, poolEnded>>

\* ---- the transactions Map ------------------------------------------------
\* an entry is the ActiveTransaction stored under a transaction id: the
\* number of its client and the Transaction's status and startedAt
MapHas(m, k) == \E i \in 1..Len(m) : m[i].id = k

MapGet(m, k) == m[CHOOSE i \in 1..Len(m) : m[i].id = k]

\* Map.set: a new key is appended, an existing key keeps its position
MapSet(m, k, e) ==
  IF MapHas(m, k)
  THEN [i \in 1..Len(m) |-> IF m[i].id = k THEN e ELSE m[i]]
  ELSE Append(m, e)

MapDelete(m, k) == SelectSeq(m, LAMBDA e : e.id # k)

\* `active.transaction.status = ...` on the object captured by the caller
SetStatus(m, s, final) ==
  [i \in 1..Len(m) |-> IF m[i].ser = s THEN [m[i] EXCEPT !.status = final] ELSE m[i]]

\* A Map iterator visits the entries that exist when it reaches them, in
\* insertion order: when entries are deleted, the iterator that had visited
\* the first pos entries of m has visited those of them that remain in m2
PosAfter(m, m2, pos) ==
  Cardinality({i \in 1..Len(m) : i <= pos /\ MapHas(m2, m[i].id)})

\* ---- clients -------------------------------------------------------------
\* a client checked out of pool number p of connection c
NewClient(c, p) == [conn |-> c, pool |-> p, state |-> "out"]

TypeOf(cl, s) == DialectOf(cl[s].conn)

\* the client leaves the set of checked-out clients of its pool
Settle(cl, s, st) == [cl EXCEPT ![s].state = st, ![s].pool = 0]

\* releaseClient, the safety net of a failed commit / rollback.  Postgres:
\* release(true) destroys the client (and throws, swallowed, when the client
\* was released before); MySQL: release(); MSSQL: nothing.
releaseClient(cl, s) ==
  CASE TypeOf(cl, s) = "postgres" ->
         IF cl[s].state = "out" THEN Settle(cl, s, "destroyed") ELSE cl
    [] TypeOf(cl, s) = "mysql" ->
         IF cl[s].state = "out" THEN Settle(cl, s, "released") ELSE cl
    [] OTHER -> cl

\* Whether the try block of commitTransaction / rollbackTransaction runs to
\* its end once the backend call has returned with outcome ok.  Postgres:
\* the query, then release(), which throws on a client released before;
\* MySQL: commit()/rollback(), then release(), which does not throw; MSSQL:
\* commit()/rollback() of the sql.Transaction, which throws when the
\* transaction holds no connection any more.
tryBlockReturns(cl, s, ok) ==
  CASE TypeOf(cl, s) = "postgres" -> ok /\ cl[s].state = "out"
    [] TypeOf(cl, s) = "mysql"    -> ok
    [] OTHER                      -> ok /\ cl[s].state = "out"

\* The clients after the try block.  rel: a failing MSSQL commit / rollback
\* has given the connection back to the pool (the mssql library does so for
\* some failures and not for others).
tryBlockClients(cl, s, ok, rel) ==
  IF cl[s].state # "out" THEN cl
  ELSE IF tryBlockReturns(cl, s, ok) THEN Settle(cl, s, "released")
  ELSE IF TypeOf(cl, s) = "mssql" /\ rel THEN Settle(cl, s, "released")
  ELSE cl

\* finishTransaction with a catch block that leaves the entry registered
finishTransactionKeepsFailed(cl, m, k, s, final, ok, rel) ==
  IF tryBlockReturns(cl, s, ok)
  THEN [clients |-> tryBlockClients(cl, s, ok, rel),
        transactions |-> MapDelete(SetStatus(m, s, final), k), ok |-> TRUE]
  ELSE [clients |-> releaseClient(tryBlockClients(cl, s, ok, rel), s),
        transactions |-> m, ok |-> FALSE]

\* finishTransaction with a try block that writes the final status and
\* leaves the entry registered
finishTransactionKeepsEnded(cl, m, k, s, final, ok, rel) ==
  IF tryBlockReturns(cl, s, ok)
  THEN [clients |-> tryBlockClients(cl, s, ok, rel),
        transactions |-> SetStatus(m, s, final), ok |-> TRUE]
  ELSE [clients |-> releaseClient(tryBlockClients(cl, s, ok, rel), s),
        transactions |-> MapDelete(m, k), ok |-> FALSE]

\* commitTransaction / rollbackTransaction from the return of the backend
\* call on, for the id k and the ActiveTransaction (client s) captured before
\* the await: the new clients and transactions map, and whether the call
\* returns (ok) or throws
finishTransaction(cl, m, k, s, final, ok, rel) ==
  IF tryBlockReturns(cl, s, ok)
  THEN [clients |-> tryBlockClients(cl, s, ok, rel),
        transactions |-> MapDelete(SetStatus(m, s, final), k), ok |-> TRUE]
  ELSE [clients |-> releaseClient(tryBlockClients(cl, s, ok, rel), s),
        transactions |-> MapDelete(m, k), ok |-> FALSE]

\* the guard of executeInTransaction, commitTransaction, rollbackTransaction
txnGuard(m, k) == MapHas(m, k) /\ MapGet(m, k).status = "active"

\* the status written by commitTransaction and by rollbackTransaction
FinalStatus == {"committed", "rolled_back"}

\* ---- state of the asynchronous activities --------------------------------
IdleTask ==
  [pc |-> "idle", op |-> "none", conn |-> "none", id |-> NoId, ser |-> 0,
   pool |-> 0]

Free(t) == task[t].pc = "idle"

\* a new call takes the first free slot
Slot(t) ==
  \E i \in 1..Len(TaskSlots) :
    /\ TaskSlots[i] = t
    /\ Free(t)
    /\ \A j \in 1..(i - 1) : ~Free(TaskSlots[j])

\* a call that has returned or thrown: its locals are gone
Done == IdleTask

Await(pc, op, c, k, s, p) ==
  [pc |-> pc, op |-> op, conn |-> c, id |-> k, ser |-> s, pool |-> p]

IdleSweep ==
  [pc |-> "idle", now |-> 0, maxAge |-> 0, pos |-> 0, cleaned |-> 0,
   id |-> NoId, ser |-> 0]

\* a shutdown handler: the locals of rollbackAll (ids, count, the id and the
\* client of the ROLLBACK awaited), the closePool calls pending, and, for
\* stating what rollbackAll achieves, the transactions registered when it was
\* called (snapshot) and those of them whose id, when the loop reached it,
\* named another transaction (skipped)
IdleHandler ==
  [pc |-> "idle", ids |-> <<>>, count |-> 0, id |-> NoId, ser |-> 0,
   pending |-> {}, snapshot |-> {}, skipped |-> {}]

\* the tool call the server is handling: its position, the tool, the
\* arguments (connection id, statement, table or schema name, the flag
\* confirm / analyze), the statement on its way to the backend, the number
\* of executeQuery calls made, whether the try block awaited has failed,
\* whether the call awaited carries a timeout; when no call is handled, the
\* tool and the reply of the last one
IdleReq ==
  [pc |-> "idle", tool |-> "none", conn |-> "none", stmt |-> <<>>,
   name |-> <<>>, flag |-> FALSE, text |-> <<>>, step |-> 0,
   failed |-> FALSE, timed |-> FALSE, reply |-> "none"]

WRITE_TOOLS ==
  {"write_query", "create_table", "alter_table", "drop_table",
   "begin_transaction", "commit_transaction", "rollback_transaction",
   "execute_in_transaction"}

\* the CallTool handler with execute_in_transaction left out of the block
PermittedAllowsExecute(name) ==
  ~(readOnly /\ name \in WRITE_TOOLS \ {"execute_in_transaction"})

\* the CallTool handler goes on to the switch
Permitted(name) == ~(readOnly /\ name \in WRITE_TOOLS)

\* a check that has not been called, with the argument it will be called on
NoProbe(q) == [fn |-> "none", input |-> q, verdict |-> "none"]

\* the state after construction, for a workspace drawn from W
Start(W) ==
  /\ now = 0
  /\ workspace \in W
  /\ pools = [c \in Connections |-> 0]
  /\ constructed = [c \in Connections |-> 0]
  /\ poolEnded = [c \in Connections |-> {}]
  /\ clients = <<>>
  /\ transactions = <<>>
  /\ task = [t \in Tasks |-> IdleTask]
  /\ sweep = IdleSweep
  /\ handler = [h \in Handlers |-> IdleHandler]
  /\ timer = "unset"
  /\ exited = FALSE
  /\ readOnly \in BOOLEAN
  /\ req = IdleReq
  /\ adhoc = <<>>

\* the workspace holds one connection
Init == Start({{c} : c \in Connections}) /\ probe = NoProbe(<<>>)

\* the transport is connected (tool calls are served) once run() has armed
\* the timer
Serving == ~exited /\ timer # "unset"

\* a deletion from the transactions map seen by a sweep that is iterating it
sweepSees(m2) == [sweep EXCEPT !.pos = PosAfter(transactions, m2, @)]

\* process.exit(0): the tool calls and the sweep in flight end with the
\* process
exitEffect(exits, sw) ==
  /\ exited' = exits
  /\ task' = IF exits THEN [t \in Tasks |-> IdleTask] ELSE task
  /\ sweep' = IF exits THEN IdleSweep ELSE sw

\* the clock advances
Tick ==
  /\ ~exited
  /\ now < MaxTime
  /\ now' = now + 1
  /\ UNCHANGED <<poolVars, clients, transactions, task, sweep, handler,
                 timer, exited>>
  /\ UNCHANGED queryVars

\* run(): setInterval(...) after the transport is connected
StartTimer ==
  /\ ~exited
  /\ timer = "unset"
  /\ timer' = "armed"
  /\ UNCHANGED <<now, poolVars, clients, transactions, task, sweep,
                 handler, exited>>
  /\ UNCHANGED queryVars

\* ---- ConnectionPoolManager.getPool ---------------------------------------
\* what getPool does before its first await: "existing" returns the
\* registered entry; "created" (Postgres, MySQL) constructs and registers a
\* pool; "connecting" (MSSQL) constructs a pool and awaits pool.connect()
\* with nothing registered yet; "null" for every other driver
getPoolKind(c) ==
  IF pools[c] # 0 THEN "existing"
  ELSE IF DialectOf(c) \in {"postgres", "mysql"} THEN "created"
  ELSE IF DialectOf(c) = "mssql" THEN "connecting"
  ELSE "null"

\* the number of the pool that getPool returns or constructs
getPoolNumber(c) == IF pools[c] # 0 THEN pools[c] ELSE constructed[c] + 1

RECURSIVE SumOver(_, _)
SumOver(f, S) ==
  IF S = {} THEN 0
  ELSE LET x == CHOOSE y \in S : TRUE IN f[x] + SumOver(f, S \ {x})

CanGetPool(c) ==
  \/ getPoolKind(c) \in {"existing", "null"}
  \/ SumOver(constructed, Connections) < MaxPools

\* the pool registry and the constructor count after the synchronous part
getPoolEffect(c) ==
  /\ constructed' = IF getPoolKind(c) \in {"created", "connecting"}
                    THEN [constructed EXCEPT ![c] = @ + 1] ELSE constructed
  /\ pools' = IF getPoolKind(c) = "created"
              THEN [pools EXCEPT ![c] = getPoolNumber(c)] ELSE pools
  /\ UNCHANGED <<workspace, poolEnded>>

\* createMssqlPool after `await pool.connect()`: the entry is registered
\* under the connection id, whatever is registered there by now
mssqlConnected(c, p, ok) ==
  /\ pools' = IF ok THEN [pools EXCEPT ![c] = p] ELSE pools
  /\ UNCHANGED <<workspace, constructed, poolEnded>>

\* get_pool_stats: `await this.poolManager.getPool(connection)`
GetPoolCall(t, c) ==
  /\ Serving
  /\ c \in workspace
  /\ Slot(t)
  /\ CanGetPool(c)
  /\ getPoolEffect(c)
  /\ task' = [task EXCEPT ![t] =
       IF getPoolKind(c) = "connecting"
       THEN Await("gp_connect", "getPool", c, NoId, 0, getPoolNumber(c))
       ELSE Done]
  /\ UNCHANGED <<now, clients, transactions, sweep, handler, timer, exited>>
  /\ UNCHANGED queryVars

GetPoolConnected(t) ==
  /\ ~exited
  /\ task[t].pc = "gp_connect"
  /\ \E ok \in BOOLEAN :
       /\ mssqlConnected(task[t].conn, task[t].pool, ok)
       /\ task' = [task EXCEPT ![t] = Done]
  /\ UNCHANGED <<now, clients, transactions, sweep, handler, timer, exited>>
  /\ UNCHANGED queryVars

\* ---- TransactionManager.beginTransaction ---------------------------------
\* begins in flight that have not checked a client out yet
PendingBegins ==
  Cardinality({t \in Tasks : task[t].pc \in {"bt_pool", "bt_checkout"}
                 \/ (task[t].pc = "bt_begin" /\ task[t].ser = 0)})

\* up to the first await: the id is generated, getPool runs up to its own
\* first await, and for Postgres / MySQL the client checkout is started
\* (n: the clients that the run may check out)
BeginCall(t, c, r, n) ==
  /\ Serving
  /\ Permitted("begin_transaction")
  /\ c \in workspace
  /\ Slot(t)
  /\ CanGetPool(c)
  /\ Len(clients) + PendingBegins < n
  /\ getPoolEffect(c)
  /\ task' = [task EXCEPT ![t] =
       CASE getPoolKind(c) = "null" -> Done
         [] getPoolKind(c) = "connecting" ->
              Await("bt_pool", "begin", c, generateTransactionId(now, r), 0,
                    getPoolNumber(c))
         [] DialectOf(c) = "mssql" ->
              Await("bt_begin", "begin", c, generateTransactionId(now, r), 0,
                    getPoolNumber(c))
         [] OTHER ->
              Await("bt_checkout", "begin", c, generateTransactionId(now, r), 0,
                    getPoolNumber(c))]
  /\ UNCHANGED <<now, clients, transactions, sweep, handler, timer, exited>>
  /\ UNCHANGED queryVars

\* getPool of an MSSQL connection returns inside beginTransaction; then
\* `new sql.Transaction(pool)` and `await mssqlTxn.begin()`
BeginPoolConnected(t) ==
  /\ ~exited
  /\ task[t].pc = "bt_pool"
  /\ \E ok \in BOOLEAN :
       /\ mssqlConnected(task[t].conn, task[t].pool, ok)
       /\ task' = [task EXCEPT ![t] =
            IF ok THEN [task[t] EXCEPT !.pc = "bt_begin"] ELSE Done]
  /\ UNCHANGED <<now, clients, transactions, sweep, handler, timer, exited>>
  /\ UNCHANGED queryVars

\* `await pgPool.connect()` / `await mysqlPool.getConnection()` returns (a
\* pool that was ended refuses); then BEGIN is sent on the client
BeginCheckedOut(t) ==
  /\ ~exited
  /\ task[t].pc = "bt_checkout"
  /\ \E ok \in BOOLEAN :
       IF ok /\ task[t].pool \notin poolEnded[task[t].conn]
       THEN /\ clients' = Append(clients, NewClient(task[t].conn, task[t].pool))
            /\ task' = [task EXCEPT ![t] =
                 [task[t] EXCEPT !.pc = "bt_begin", !.ser = Len(clients) + 1,
                                 !.pool = 0]]
       ELSE /\ clients' = clients
            /\ task' = [task EXCEPT ![t] = Done]
  /\ UNCHANGED <<now, poolVars, transactions, sweep, handler, timer, exited>>
  /\ UNCHANGED queryVars

\* the Transaction built at the end of beginTransaction
NewTransaction(k, s) ==
  [id |-> k, ser |-> s, status |-> "active", startedAt |-> now]

\* the backend's begin returns.  Postgres / MySQL: the client is already
\* checked out, and a failed BEGIN throws with the client still out.  MSSQL:
\* begin() acquires the connection and begins; when it fails the connection
\* may (leak) or may not have been acquired.  On success the transaction is
\* registered: transactions.set(transactionId, ...).
BeginBegun(t) ==
  /\ ~exited
  /\ task[t].pc = "bt_begin"
  /\ \E ok \in BOOLEAN, leak \in BOOLEAN :
       LET c == task[t].conn
           k == task[t].id
           mssql == task[t].ser = 0
           good == ok /\ (mssql => task[t].pool \notin poolEnded[c])
           s == IF mssql THEN Len(clients) + 1 ELSE task[t].ser
       IN /\ (leak => (mssql /\ ~good))
          /\ clients' = IF mssql /\ (good \/ leak)
                        THEN Append(clients, NewClient(c, task[t].pool))
                        ELSE clients
          /\ transactions' = IF good THEN MapSet(transactions, k, NewTransaction(k, s))
                             ELSE transactions
          /\ task' = [task EXCEPT ![t] = Done]
  /\ UNCHANGED <<now, poolVars, sweep, handler, timer, exited>>
  /\ UNCHANGED queryVars

\* ---- executeInTransaction, commitTransaction, rollbackTransaction --------
\* execute_in_transaction.  After its guard the call only awaits the query
\* on the captured client and maps the result: it reads and writes none of
\* the registries after the await, so the call is one step with either
\* outcome of the query.
ExecuteCall(t, k) ==
  /\ Serving
  /\ Permitted("execute_in_transaction")
  /\ Slot(t)
  /\ \E ok \in BOOLEAN :
       task' = [task EXCEPT ![t] =
         Done]
  /\ UNCHANGED <<now, poolVars, clients, transactions, sweep, handler,
                 timer, exited>>
  /\ UNCHANGED queryVars

\* commit_transaction / rollback_transaction up to the await of the backend
\* COMMIT / ROLLBACK.  The two handlers have the same guards and differ in
\* the statement sent and in the status written afterwards; which of the two
\* is running is not kept, the status is chosen when the call returns.
FinishCall(t, k) ==
  /\ Serving
  /\ Permitted("commit_transaction") /\ Permitted("rollback_transaction")
  /\ Slot(t)
  /\ task' = [task EXCEPT ![t] =
       IF txnGuard(transactions, k)
       THEN Await("fin_wait", "finish", "none", k, MapGet(transactions, k).ser, 0)
       ELSE Done]
  /\ UNCHANGED <<now, poolVars, clients, transactions, sweep, handler,
                 timer, exited>>
  /\ UNCHANGED queryVars

\* the outcomes of an awaited COMMIT / ROLLBACK on client s: it succeeds or
\* fails, and a failing MSSQL one on a held connection may give it back
Outcomes(s) ==
  {o \in [ok : BOOLEAN, rel : BOOLEAN] :
     o.rel => (~o.ok /\ TypeOf(clients, s) = "mssql" /\ clients[s].state = "out")}

\* the backend COMMIT / ROLLBACK returns and the call returns its result
\* (returns = TRUE) or throws (returns = FALSE)
FinishOutcome(t, returns) ==
  /\ ~exited
  /\ task[t].pc = "fin_wait"
  /\ \E o \in Outcomes(task[t].ser), final \in FinalStatus :
       LET r == finishTransaction(clients, transactions, task[t].id, task[t].ser,
                                  final, o.ok, o.rel)
       IN /\ r.ok = returns
          /\ clients' = r.clients
          /\ transactions' = r.transactions
          /\ sweep' = sweepSees(r.transactions)
          /\ task' = [task EXCEPT ![t] = Done]
  /\ UNCHANGED <<now, poolVars, handler, timer, exited>>
  /\ UNCHANGED queryVars

FinishReturned(t) == FinishOutcome(t, TRUE)

FinishThrew(t) == FinishOutcome(t, FALSE)

\* ---- cleanupStaleTransactions --------------------------------------------
\* The for-of loop over the transactions map from position pos up to its
\* next await or its end.  An entry that is not stale is skipped; for a stale
\* one rollbackTransaction(id) is called: when its guard throws, the catch
\* block deletes the entry and counts it, otherwise ROLLBACK is awaited
\* (ser is the client awaited on, 0 when the loop is over).
RECURSIVE sweepLoop(_, _, _, _, _)
sweepLoop(m, pos, nowS, maxAge, cleaned) ==
  IF pos >= Len(m)
  THEN [m |-> m, pos |-> pos, cleaned |-> cleaned, id |-> NoId, ser |-> 0]
  ELSE IF nowS - m[pos + 1].startedAt > maxAge
  THEN IF m[pos + 1].status = "active"
       THEN [m |-> m, pos |-> pos + 1, cleaned |-> cleaned,
             id |-> m[pos + 1].id, ser |-> m[pos + 1].ser]
       ELSE sweepLoop(MapDelete(m, m[pos + 1].id), pos, nowS, maxAge, cleaned + 1)
  ELSE sweepLoop(m, pos + 1, nowS, maxAge, cleaned)

\* the sweep after a run of the loop: awaiting a ROLLBACK, or returned (the
\* locals of a returned sweep are gone)
sweepAfter(r, nowS, maxAge) ==
  IF r.ser = 0 THEN IdleSweep
  ELSE [pc |-> "wait", now |-> nowS, maxAge |-> maxAge, pos |-> r.pos,
        cleaned |-> r.cleaned, id |-> r.id, ser |-> r.ser]

\* `cleaned++` of the try block (ok) and of the catch block (~ok)
countCleaned(cleaned, ok) == cleaned + 1

\* the timer fires: cleanupStaleTransactions(maxAge) up to its first await
SweepStart(maxAge) ==
  /\ ~exited
  /\ timer = "armed"
  /\ sweep.pc = "idle"
  /\ LET r == sweepLoop(transactions, 0, now, maxAge, 0)
     IN /\ transactions' = r.m
        /\ sweep' = sweepAfter(r, now, maxAge)
  /\ UNCHANGED <<now, poolVars, clients, task, handler, timer, exited>>
  /\ UNCHANGED queryVars

\* the ROLLBACK awaited by the sweep returns; the catch block of the sweep
\* deletes the entry once more; the loop goes on
SweepReturned ==
  /\ ~exited
  /\ sweep.pc = "wait"
  /\ \E o \in Outcomes(sweep.ser) :
       LET f == finishTransaction(clients, transactions, sweep.id, sweep.ser,
                                  "rolled_back", o.ok, o.rel)
           m == IF f.ok THEN f.transactions ELSE MapDelete(f.transactions, sweep.id)
           r == sweepLoop(m, PosAfter(transactions, m, sweep.pos), sweep.now,
                          sweep.maxAge, countCleaned(sweep.cleaned, f.ok))
       IN /\ clients' = f.clients
          /\ transactions' = r.m
          /\ sweep' = sweepAfter(r, sweep.now, sweep.maxAge)
  /\ UNCHANGED <<now, poolVars, task, handler, timer, exited>>
  /\ UNCHANGED queryVars

\* ---- rollbackAll and the shutdown handler --------------------------------
\* `Array.from(this.transactions.keys())`, each id with the transaction it
\* names at that time
Snapshot(m) == [i \in 1..Len(m) |-> [id |-> m[i].id, ser |-> m[i].ser]]

\* `count++` of the try block (ok) and of the catch block (~ok)
countRolledBack(count, ok) == count + 1

\* The loop of rollbackAll over the snapshot ids up to its next await or its
\* end: when the guard of rollbackTransaction(id) throws, the catch block
\* deletes the id and counts it, otherwise ROLLBACK is awaited on the
\* client of the transaction that the id names now.
RECURSIVE rollbackAllLoop(_, _, _, _)
rollbackAllLoop(m, ids, count, skipped) ==
  IF ids = <<>>
  THEN [m |-> m, ids |-> ids, count |-> count, skipped |-> skipped,
        id |-> NoId, ser |-> 0]
  ELSE IF txnGuard(m, Head(ids).id)
  THEN [m |-> m, ids |-> Tail(ids), count |-> count,
        skipped |-> IF MapGet(m, Head(ids).id).ser = Head(ids).ser THEN skipped
                    ELSE skipped \cup {Head(ids).ser},
        id |-> Head(ids).id, ser |-> MapGet(m, Head(ids).id).ser]
  ELSE rollbackAllLoop(MapDelete(m, Head(ids).id), Tail(ids),
                       countRolledBack(count, FALSE), skipped)

\* The shutdown handler after a run of the rollbackAll loop r.  While a
\* ROLLBACK is awaited the handler waits in rollbackAll.  When rollbackAll
\* has returned, closeAllPools calls closePool for every registered id, each
\* up to its `await pool.end()`; with no pool registered Promise.all resolves
\* at once and the handler clears the timer and exits.
\* exitsAfter of a handler that does not await closeAllPools
exitsAfterRollback(r) == r.ser = 0

exitsAfter(r) == r.ser = 0 /\ \A c \in Connections : pools[c] = 0

shutdownAfter(h, r, snapshot) ==
  LET closing == {c \in Connections : pools[c] # 0}
  IN /\ handler' = [handler EXCEPT ![h] =
          [pc |-> IF r.ser # 0 THEN "rollbackAll"
                  ELSE IF closing # {} THEN "closeAllPools" ELSE "exited",
           ids |-> r.ids, count |-> r.count, id |-> r.id, ser |-> r.ser,
           pending |-> IF r.ser # 0 THEN {} ELSE closing,
           snapshot |-> snapshot, skipped |-> r.skipped]]
     /\ poolEnded' = IF r.ser # 0 THEN poolEnded
                     ELSE [c \in Connections |->
                             IF c \in closing THEN poolEnded[c] \cup {pools[c]}
                             ELSE poolEnded[c]]
     /\ timer' = IF r.ser = 0 /\ closing = {} /\ timer = "armed" THEN "cleared"
                 ELSE timer
     /\ UNCHANGED <<workspace, pools, constructed>>

\* SIGTERM / SIGINT: shutdown() up to its first await
Signal(h) ==
  /\ ~exited
  /\ handler[h].pc = "idle"
  /\ LET r == rollbackAllLoop(transactions, Snapshot(transactions), 0, {})
     IN /\ transactions' = r.m
        /\ exitEffect(exitsAfter(r), sweepSees(r.m))
        /\ shutdownAfter(h, r, {transactions[i].ser : i \in 1..Len(transactions)})
  /\ UNCHANGED <<now, clients>>
  /\ UNCHANGED queryVars

\* the ROLLBACK awaited by rollbackAll returns; the catch block of
\* rollbackAll deletes the id once more; the loop goes on
ShutdownRollbackReturned(h) ==
  /\ ~exited
  /\ handler[h].pc = "rollbackAll"
  /\ \E o \in Outcomes(handler[h].ser) :
       LET f == finishTransaction(clients, transactions, handler[h].id,
                                  handler[h].ser, "rolled_back", o.ok, o.rel)
           m == IF f.ok THEN f.transactions
                ELSE MapDelete(f.transactions, handler[h].id)
           r == rollbackAllLoop(m, handler[h].ids,
                                countRolledBack(handler[h].count, f.ok),
                                handler[h].skipped)
       IN /\ clients' = f.clients
          /\ transactions' = r.m
          /\ exitEffect(exitsAfter(r), sweepSees(r.m))
          /\ shutdownAfter(h, r, handler[h].snapshot)
  /\ UNCHANGED now
  /\ UNCHANGED queryVars

\* the clients checked out of the pool registered for connection c
Outstanding(c) ==
  {s \in 1..Len(clients) :
     clients[s].state = "out" /\ clients[s].conn = c /\ clients[s].pool = pools[c]}

\* closePool that leaves the entry registered when closing the pool failed
closePoolAfterKeepsFailed(p, c, ok) == IF ok THEN [p EXCEPT ![c] = 0] ELSE p

\* the pools map after the try / catch of closePool(c), ok telling whether
\* `await pool.end()` / `close()` returned or threw: a failure is caught and
\* logged, and in either case the id is deleted
closePoolAfter(p, c, ok) == [p EXCEPT ![c] = 0]

\* closePool(c) after `await pool.end()` / `close()`, called by closeAllPools.
\* The end() of a Postgres pool returns once every client checked out of it
\* has been released.  When the last closePool has returned, Promise.all
\* resolves: the handler clears the timer and exits.
ClosePoolReturned(h, c) ==
  /\ ~exited
  /\ handler[h].pc = "closeAllPools"
  /\ c \in handler[h].pending
  /\ DialectOf(c) = "postgres" => Outstanding(c) = {}
  /\ \E ok \in BOOLEAN : pools' = closePoolAfter(pools, c, ok)
  /\ handler' = [handler EXCEPT ![h].pending = @ \ {c},
                                ![h].pc = IF handler[h].pending = {c}
                                          THEN "exited" ELSE @]
  /\ timer' = IF handler[h].pending = {c} /\ timer = "armed" THEN "cleared"
              ELSE timer
  /\ exitEffect(handler[h].pending = {c}, sweep)
  /\ UNCHANGED <<now, workspace, constructed, poolEnded, clients, transactions>>
  /\ UNCHANGED queryVars

\* closePool(c) called on its own, up to its await: without an entry it
\* returns at once, otherwise end() / close() is called on the entry's pool
ClosePoolCall(t, c) ==
  /\ ~exited
  /\ Slot(t)
  /\ poolEnded' = IF pools[c] = 0 THEN poolEnded
                  ELSE [poolEnded EXCEPT ![c] = @ \cup {pools[c]}]
  /\ task' = [task EXCEPT ![t] =
       IF pools[c] = 0 THEN Done
       ELSE Await("cp_end", "closePool", c, NoId, 0, pools[c])]
  /\ UNCHANGED <<now, workspace, pools, constructed, clients, transactions,
                 sweep, handler, timer, exited>>
  /\ UNCHANGED queryVars

\* the end() / close() awaited by that closePool returns or throws
ClosePoolEnded(t) ==
  /\ ~exited
  /\ task[t].pc = "cp_end"
  /\ DialectOf(task[t].conn) = "postgres" => Outstanding(task[t].conn) = {}
  /\ \E ok \in BOOLEAN : pools' = closePoolAfter(pools, task[t].conn, ok)
  /\ task' = [task EXCEPT ![t] = Done]
  /\ UNCHANGED <<now, workspace, constructed, poolEnded, clients, transactions,
                 sweep, handler, timer, exited>>
  /\ UNCHANGED queryVars

CallActions(T, n) ==
  \/ \E t \in T, c \in Connections, r \in RandVals : BeginCall(t, c, r, n)
  \/ \E t \in T : BeginPoolConnected(t)
  \/ \E t \in T : BeginCheckedOut(t)
  \/ \E t \in T : BeginBegun(t)
  \/ \E t \in T, k \in TxnIds : ExecuteCall(t, k)
  \/ \E t \in T, k \in TxnIds : FinishCall(t, k)
  \/ \E t \in T : FinishReturned(t)
  \/ \E t \in T : FinishThrew(t)

SweepActions ==
  \/ \E a \in MaxAges : SweepStart(a)
  \/ SweepReturned

ShutdownActions(H) ==
  \/ \E h \in H : Signal(h)
  \/ \E h \in H : ShutdownRollbackReturned(h)
  \/ \E h \in H, c \in Connections : ClosePoolReturned(h, c)

\* one tool call at a time, the periodic sweep and one shutdown signal
Next ==
  \/ Tick
  \/ StartTimer
  \/ CallActions({"t1"}, MaxTxns)
  \/ SweepActions
  \/ ShutdownActions({"h1"})

Spec == Init /\ [][Next]_vars

\* ---- a longer run ---------------------------------------------------------
\* the same activities over a run that may check out one more client
NextLong ==
  \/ Tick
  \/ StartTimer
  \/ CallActions({"t1"}, MaxTxns + 1)
  \/ SweepActions
  \/ ShutdownActions({"h1"})

SpecLong == Init /\ [][NextLong]_vars

\* ---- concurrent tool calls ------------------------------------------------
\* tool calls that overlap and the periodic sweep, without a shutdown signal
NextCalls ==
  \/ Tick
  \/ StartTimer
  \/ CallActions(Tasks, MaxTxns)
  \/ SweepActions

SpecCalls == Init /\ [][NextCalls]_vars

\* ---- the pool manager alone ----------------------------------------------
\* concurrent get_pool_stats calls (the tool that calls getPool and nothing
\* else) and the shutdown signals, which close the pools
PoolActions(T) ==
  \/ \E t \in T, c \in Connections : GetPoolCall(t, c)
  \/ \E t \in T : GetPoolConnected(t)

\* the workspace holds every connection
InitPool == Start({Connections}) /\ probe = NoProbe(<<>>)

NextPool ==
  \/ StartTimer
  \/ PoolActions(Tasks)
  \/ \E h \in Handlers : Signal(h)
  \/ \E h \in Handlers, c \in Connections : ClosePoolReturned(h, c)
  \/ \E t \in Tasks, c \in Connections : ClosePoolCall(t, c)
  \/ \E t \in Tasks : ClosePoolEnded(t)

SpecPool == InitPool /\ [][NextPool]_vars

\* ---- identifiers and the statements built by the server --------------------
\* the longest identifier accepted
MaxIdentifierLength == 128

\* a run of MaxIdentifierLength letters, handled as one piece
LongRun == "tttt"

\* the number of characters of a piece of an identifier
CharLen(ch) == IF ch = LongRun THEN MaxIdentifierLength ELSE 1

RECURSIVE length(_)
length(s) == IF s = <<>> THEN 0 ELSE CharLen(Head(s)) + length(Tail(s))

\* [a-zA-Z_]
IsLetter(ch) == ch \in {"t", "s", "_", LongRun}

\* [a-zA-Z0-9_]
IsWordChar(ch) == IsLetter(ch) \/ ch = "1"

\* /['";\\]/
HasInvalidChar(s) == \E i \in 1..Len(s) : s[i] \in {"'", "\"", ";", "\\"}

\* /--|\/\*|\*\/|;/
HasSuspiciousPattern(s) ==
  \/ \E i \in 1..(Len(s) - 1) :
       \/ s[i] = "-" /\ s[i + 1] = "-"
       \/ s[i] = "/" /\ s[i + 1] = "*"
       \/ s[i] = "*" /\ s[i + 1] = "/"
  \/ \E i \in 1..Len(s) : s[i] = ";"

\* the value thrown by a function that throws
Thrown == <<"Error">>

\* sanitizeIdentifier with the test of the first character only
sanitizeIdentifierFirstOnly(identifier) ==
  LET sanitized == trim(identifier)
  IN IF identifier = <<>> THEN Thrown
     ELSE IF HasInvalidChar(sanitized) THEN Thrown
     ELSE IF HasSuspiciousPattern(sanitized) THEN Thrown
     ELSE IF length(sanitized) > MaxIdentifierLength THEN Thrown
     ELSE IF ~(sanitized # <<>> /\ IsLetter(sanitized[1])) THEN Thrown
     ELSE sanitized

sanitizeIdentifier(identifier) ==
  LET sanitized == trim(identifier)
  IN IF identifier = <<>> THEN Thrown
     ELSE IF HasInvalidChar(sanitized) THEN Thrown
     ELSE IF HasSuspiciousPattern(sanitized) THEN Thrown
     ELSE IF length(sanitized) > MaxIdentifierLength THEN Thrown
     ELSE IF ~(sanitized # <<>> /\ IsLetter(sanitized[1])) THEN Thrown
     ELSE IF ~(\A i \in 1..Len(sanitized) : IsWordChar(sanitized[i])) THEN Thrown
     ELSE sanitized

\* the schema query of every driver: the name between single quotes in a
\* WHERE clause (for SQLite between parentheses)
buildSchemaQuery(driver, tableName) ==
  LET safeTableName == sanitizeIdentifier(tableName)
  IN IF safeTableName = Thrown THEN Thrown
     ELSE IF "sqlite" \in driver
     THEN <<"pragma", " ", "table_info", "(">> \o safeTableName \o <<")", ";">>
     ELSE <<"select", " ", "columns", " ", "where", " ", "table_name", "=", "'">>
          \o safeTableName \o <<"'">>

\* the list query: a schema that is given is compared in a WHERE clause
buildListTablesQuery(driver, schema) ==
  LET safeSchema == IF schema # <<>> THEN sanitizeIdentifier(schema) ELSE <<>>
  IN IF safeSchema = Thrown THEN Thrown
     ELSE IF safeSchema = <<>> \/ "sqlite" \in driver
     THEN <<"select", " ", "tables">>
     ELSE <<"select", " ", "tables", " ", "where", " ", "table_schema", "=", "'">>
          \o safeSchema \o <<"'">>

\* DROP TABLE "${tableName}"
dropQuery(tableName) == <<"DROP", " ", "TABLE", " ", "\"">> \o tableName \o <<"\"">>

\* buildExplainQuery with the default format
buildExplainQuery(driver, query, analyze) ==
  IF "postgres" \in driver
  THEN <<"EXPLAIN", " ">> \o (IF analyze THEN <<"(", "ANALYZE", ")">> ELSE <<>>)
       \o <<" ">> \o query
  ELSE IF "mysql" \in driver \/ "mariadb" \in driver
  THEN (IF analyze THEN <<"EXPLAIN", " ", "ANALYZE", " ">> ELSE <<"EXPLAIN", " ">>)
       \o query
  ELSE IF "mssql" \in driver \/ "sqlserver" \in driver
  THEN <<"SET", " ", "SHOWPLAN_TEXT", " ", "ON", ";", " ">> \o query
       \o <<";", " ", "SET", " ", "SHOWPLAN_TEXT", " ", "OFF", ";">>
  ELSE IF "sqlite" \in driver
  THEN <<"EXPLAIN", " ", "QUERY", " ", "PLAN", " ">> \o query
  ELSE <<"EXPLAIN", " ">> \o query

\* lowerQuery.startsWith(word)
startsWith(t, word) == t # <<>> /\ t[1] = word

\* lowerQuery.startsWith('create table') and the like
startsWithTwo(t, a, b) == Len(t) >= 3 /\ t[1] = a /\ t[2] = " " /\ t[3] = b

\* query.replace(/;+\s*$/g, '') on a trimmed statement
RECURSIVE stripSemicolons(_)
stripSemicolons(q) ==
  IF q # <<>> /\ q[Len(q)] = ";" THEN stripSemicolons(SubSeq(q, 1, Len(q) - 1))
  ELSE q

\* the statement execute_query sends: a SELECT without a limit gets one
limitQuery(driver, query) ==
  LET lowerQuery == toLowerCase(query)
  IN IF ~startsWith(lowerQuery, "select") THEN query
     ELSE IF "mssql" \in driver \/ "sqlserver" \in driver \/ "microsoft" \in driver
     THEN IF \/ MatchSpaced(lowerQuery, "top")
             \/ MatchSpaced(lowerQuery, "offset")
             \/ \E i \in 1..(Len(lowerQuery) - 2) :
                  /\ lowerQuery[i] = "fetch" /\ lowerQuery[i + 1] = " "
                  /\ lowerQuery[i + 2] = "next"
          THEN query
          ELSE <<"SELECT", " ", "TOP", " ", "n">> \o Tail(query)
     ELSE IF MatchWord(lowerQuery, "limit") THEN query
     ELSE stripSemicolons(query) \o <<" ", "LIMIT", " ", "n">>

\* the statement export_data sends
exportQuery(query) ==
  IF MatchWord(toLowerCase(query), "limit") THEN query
  ELSE query \o <<" ", "LIMIT", " ", "n">>

\* ---- tool calls that run a statement ---------------------------------------
\* number of connections and subprocesses left behind after which no further
\* tool call is made
MaxQueries == 1

\* the tools handled by the TransactionManager
TransactionTools ==
  {"begin_transaction", "commit_transaction", "rollback_transaction",
   "execute_in_transaction"}

\* the tools that take a statement
StatementTools ==
  {"execute_query", "write_query", "create_table", "alter_table",
   "export_data", "explain_query"}

\* the tools (and the resource read) that take a table or schema name
NameTools == {"get_table_schema", "list_tables", "drop_table", "read_resource"}

Tools == StatementTools \cup NameTools \cup TransactionTools

\* the tools listed by the ListTools handler
ListedTools == {name \in Tools \ {"read_resource"} : Permitted(name)}

\* the connection ids of the calls: those of the workspace and an unknown one
ConnectionIds == Connections \cup {"unknown"}

\* the statements of the calls
Statements ==
  {<<"select", " ", "1">>,
   <<" ", "SELECT", " ", "*", " ", "from", " ", "t", ";">>,
   <<"select", "*", "from", " ", "t">>,
   <<"delete", " ", "from", " ", "t">>,
   <<"delete", " ", "from", " ", "t", " ", "where", " ", "t">>,
   <<"insert", " ", "t">>,
   <<"create", " ", "table", " ", "t">>,
   <<"alter", " ", "table", " ", "t">>,
   <<"select", " ", "shutdown">>}

\* the table and schema names of the calls
Names ==
  {<<>>, <<"t">>, <<" ", "t", "1", " ">>, <<" ">>, <<"1", "t">>,
   <<"s", ".", "t">>, <<"t", "'", ";", "-", "-">>, <<LongRun>>,
   <<"t", LongRun>>}

\* the reply to a call, after which no call is handled
Reply(name, reply) == [IdleReq EXCEPT !.tool = name, !.reply = reply]

\* the checks of handleExecuteQuery without enforceReadOnly
executeQueryChecksNoReadOnly(query) ==
  IF validateQuery(query) # null THEN "invalid" ELSE "none"

\* the checks of handleExecuteQuery on the trimmed statement
executeQueryChecks(query) ==
  IF validateQuery(query) # null THEN "invalid"
  ELSE IF enforceReadOnly(query) # null THEN "invalid"
  ELSE "none"

\* the checks of handleDropTable without the test of args.confirm
dropTableChecksNoConfirm(tableName, flag) ==
  IF tableName = <<>> THEN "invalid" ELSE "none"

\* the checks of handleDropTable: a missing table name throws; then, without
\* confirm, the handler returns its `success: false` message ("unconfirmed")
dropTableChecks(tableName, flag) ==
  IF tableName = <<>> THEN "invalid"
  ELSE IF ~flag THEN "unconfirmed"
  ELSE "none"

\* the checks a handler makes before it looks the connection up: the reply,
\* or "none" when the handler goes on
firstChecks(name, query, tableName, flag) ==
  LET lowerQuery == toLowerCase(trim(query))
  IN CASE name = "execute_query" -> executeQueryChecks(trim(query))
       [] name = "write_query" ->
            IF startsWith(lowerQuery, "select") THEN "invalid"
            ELSE IF ~(\/ startsWith(lowerQuery, "insert")
                      \/ startsWith(lowerQuery, "update")
                      \/ startsWith(lowerQuery, "delete")) THEN "invalid"
            ELSE IF validateQuery(trim(query)) # null THEN "invalid"
            ELSE "none"
       [] name = "create_table" ->
            IF startsWithTwo(lowerQuery, "create", "table") THEN "none"
            ELSE "invalid"
       [] name = "alter_table" ->
            IF startsWithTwo(lowerQuery, "alter", "table") THEN "none"
            ELSE "invalid"
       [] name = "drop_table" -> dropTableChecks(tableName, flag)
       [] name = "export_data" ->
            IF startsWith(lowerQuery, "select") THEN "none" ELSE "invalid"
       [] name = "execute_in_transaction" ->
            IF validateQuery(query) # null THEN "invalid" ELSE "none"
       [] OTHER -> "none"

\* the arguments a tool reads: query, tableName or schema, confirm or analyze
QueriesOf(name) ==
  IF name \in StatementTools \cup {"execute_in_transaction"} THEN Statements
  ELSE {<<>>}

NamesOf(name) == IF name \in NameTools THEN Names ELSE {<<>>}

FlagsOf(name) ==
  IF name \in {"drop_table", "explain_query"} THEN BOOLEAN ELSE {FALSE}

QueryFrame == UNCHANGED <<managerVars, readOnly, probe>>

\* the CallTool handler and the handler of the tool, up to its first await;
\* a resource read begins at its connection lookup
CallTool(name, c, query, tableName, flag) ==
  /\ Serving
  /\ req.pc = "idle"
  /\ Len(adhoc) < MaxQueries
  /\ req' = IF ~Permitted(name) THEN Reply(name, "disabled")
            ELSE IF firstChecks(name, query, tableName, flag) # "none"
            THEN Reply(name, firstChecks(name, query, tableName, flag))
            ELSE [IdleReq EXCEPT
                    !.pc = IF name \in {"commit_transaction",
                                        "rollback_transaction",
                                        "execute_in_transaction"}
                           THEN "manager" ELSE "lookup",
                    !.tool = name, !.conn = c,
                    !.stmt = IF name = "explain_query" THEN query
                             ELSE trim(query),
                    !.name = tableName, !.flag = flag]
  /\ UNCHANGED adhoc
  /\ QueryFrame

\* the if / else-if chain of executeWithNativeTool on
\* connection.driver.toLowerCase()
NativeOfDriver(driver) ==
  IF "sqlite" \in driver THEN "sqlite"
  ELSE IF "postgres" \in driver THEN "postgres"
  ELSE IF "mssql" \in driver \/ "sqlserver" \in driver \/ "microsoft" \in driver
  THEN "mssql"
  ELSE IF "mysql" \in driver \/ "mariadb" \in driver THEN "mysql"
  ELSE "cli"

\* the path on which the statements of connection c are executed
NativeOf(c) == NativeOfDriver(DriverOf(c))

\* the first call awaited on each path, whether the code gives it a timeout,
\* and what has been opened when it is awaited
FirstAwait(kind) ==
  CASE kind = "sqlite"   -> [pc |-> "lite_run", timed |-> FALSE, state |-> "running"]
    [] kind = "postgres" -> [pc |-> "pg_connect", timed |-> FALSE, state |-> "connecting"]
    [] kind = "mssql"    -> [pc |-> "ms_connect", timed |-> FALSE, state |-> "connecting"]
    [] kind = "mysql"    -> [pc |-> "my_connect", timed |-> TRUE, state |-> "connecting"]
    [] OTHER             -> [pc |-> "cli_run", timed |-> TRUE, state |-> "running"]

\* the reply of the handler once its last executeQuery has returned (ok) or
\* thrown
finish(r, ok) ==
  IF r.tool = "list_tables" THEN Reply(r.tool, "ok")
  ELSE IF r.tool = "drop_table" /\ r.step = 1 /\ ~ok THEN Reply(r.tool, "invalid")
  ELSE IF r.tool = "read_resource" /\ ~ok THEN Reply(r.tool, "invalid")
  ELSE Reply(r.tool, IF ok THEN "ok" ELSE "failed")

\* executeQuery(connection, text), the step-th of the handler, up to its
\* first await; avail: the DBeaver executable is found
executeQuery(r, ad, text, step, avail) ==
  LET kind == NativeOf(r.conn)
      first == FirstAwait(kind)
  IN IF kind = "cli" /\ ~avail
     THEN [r |-> finish([r EXCEPT !.step = step], FALSE), a |-> ad]
     ELSE [r |-> [r EXCEPT !.pc = first.pc, !.timed = first.timed,
                           !.text = text, !.step = step, !.failed = FALSE],
           a |-> Append(ad, [kind |-> kind, state |-> first.state])]

\* the handler after executeQuery has returned (ok) or thrown: drop_table
\* goes on to its DROP TABLE statement
afterExecute(r, ad, ok, avail) ==
  IF r.tool = "drop_table" /\ r.step = 1 /\ ok
  THEN executeQuery(r, ad, dropQuery(r.name), 2, avail)
  ELSE [r |-> finish(r, ok), a |-> ad]

\* the statement a handler first sends, or Thrown
firstQuery(r) ==
  LET driver == DriverOf(r.conn)
  IN CASE r.tool = "execute_query" -> limitQuery(driver, r.stmt)
       [] r.tool = "export_data" -> exportQuery(r.stmt)
       [] r.tool = "explain_query" -> buildExplainQuery(driver, r.stmt, r.flag)
       [] r.tool \in {"get_table_schema", "read_resource", "drop_table"} ->
            buildSchemaQuery(driver, r.name)
       [] r.tool = "list_tables" -> buildListTablesQuery(driver, r.name)
       [] OTHER -> r.stmt

\* the connections and subprocesses other than that of the call in progress,
\* and all of them with that of the call in a new state
Others == SubSeq(adhoc, 1, Len(adhoc) - 1)
Opened(state) == [adhoc EXCEPT ![Len(adhoc)].state = state]

\* the next position of the call and the connections after it
Goes(next) ==
  /\ req' = next.r
  /\ adhoc' = next.a
  /\ QueryFrame

\* the call awaits another call of the path
Awaits(pc, timed, failed, ad) ==
  Goes([r |-> [req EXCEPT !.pc = pc, !.timed = timed, !.failed = failed],
        a |-> ad])

\* getConnection has returned: the handler builds its statement and calls
\* executeQuery, or hands over to the TransactionManager
GetConnectionReturned ==
  /\ req.pc = "lookup"
  /\ \E avail \in BOOLEAN :
       IF req.conn \notin workspace
       THEN Goes([r |-> Reply(req.tool, "invalid"), a |-> adhoc])
       ELSE IF req.tool = "begin_transaction"
       THEN Awaits("manager", FALSE, FALSE, adhoc)
       ELSE IF firstQuery(req) = Thrown
       THEN Goes([r |-> finish([req EXCEPT !.step = 1], FALSE), a |-> adhoc])
       ELSE Goes(executeQuery(req, adhoc, firstQuery(req), 1, avail))

\* the operation of the TransactionManager has returned or thrown
ManagerReturned(ok) ==
  /\ req.pc = "manager"
  /\ Goes([r |-> Reply(req.tool, IF ok THEN "ok" ELSE "failed"), a |-> adhoc])

\* executePostgreSQLQuery: client.connect() has returned or thrown
PgConnectReturned(ok) ==
  /\ req.pc = "pg_connect"
  /\ IF ok THEN Awaits("pg_query", FALSE, FALSE, Opened("open"))
     ELSE Awaits("pg_end", FALSE, TRUE, adhoc)

\* client.query(query) has returned or thrown: finally, client.end()
PgQueryReturned(ok) ==
  /\ req.pc = "pg_query"
  /\ Awaits("pg_end", FALSE, ~ok, adhoc)

\* client.end() has returned, or thrown and been logged
PgEndReturned ==
  /\ req.pc = "pg_end"
  /\ Goes(afterExecute(req, Others, ~req.failed, TRUE))

\* executeSQLServerQuery: sql.connect(config) has returned or thrown
MsConnectReturned(ok) ==
  /\ req.pc = "ms_connect"
  /\ IF ok THEN Awaits("ms_query", FALSE, FALSE, Opened("open"))
     ELSE Goes(afterExecute(req, Others, FALSE, TRUE))

\* pool.request().query(query) has returned, and pool.close() is awaited, or
\* it has thrown, and the catch block throws
MsQueryReturned(ok) ==
  /\ req.pc = "ms_query"
  /\ IF ok THEN Awaits("ms_close", FALSE, FALSE, adhoc)
     ELSE Goes(afterExecute(req, adhoc, FALSE, TRUE))

\* pool.close() has returned
MsCloseReturned ==
  /\ req.pc = "ms_close"
  /\ Goes(afterExecute(req, Others, TRUE, TRUE))

\* executeMySQLQuery: mysql.createConnection has returned or thrown
MyConnectReturned(ok) ==
  /\ req.pc = "my_connect"
  /\ IF ok THEN Awaits("my_query", TRUE, FALSE, Opened("open"))
     ELSE Goes(afterExecute(req, Others, FALSE, TRUE))

\* conn.query(query) has returned or thrown: finally, conn.end()
MyQueryReturned(ok) ==
  /\ req.pc = "my_query"
  /\ Awaits("my_end", FALSE, ~ok, adhoc)

\* conn.end() has returned, or thrown and been logged
MyEndReturned ==
  /\ req.pc = "my_end"
  /\ Goes(afterExecute(req, Others, ~req.failed, TRUE))

\* the timer of withTimeout has fired first. While connecting, conn is not
\* assigned and nothing is closed: the attempt goes on, and ends open (late)
\* or not. While querying, conn.end() is awaited.
MyTimedOut(late) ==
  /\ req.pc \in {"my_connect", "my_query"}
  /\ req.timed
  /\ IF req.pc = "my_connect"
     THEN Goes(afterExecute(req, IF late THEN Opened("open") ELSE Others,
                            FALSE, TRUE))
     ELSE /\ ~late
          /\ Awaits("my_end", FALSE, TRUE, adhoc)

\* executeSQLiteQuery: sqlite3 has closed with code 0 (ok) or another code
SqliteClosed(ok) ==
  /\ req.pc = "lite_run"
  /\ Goes(afterExecute(req, Others, ok, TRUE))

\* executeDBeaver: the process has exited with code 0 (ok) or another code,
\* or could not be spawned
DBeaverExited(ok) ==
  /\ req.pc = "cli_run"
  /\ \E avail \in BOOLEAN : Goes(afterExecute(req, Others, ok, avail))

\* the timer of executeDBeaver has fired: proc.kill('SIGTERM') and reject
DBeaverTimedOut ==
  /\ req.pc = "cli_run"
  /\ req.timed
  /\ Goes(afterExecute(req, Others, FALSE, TRUE))

QueryActions ==
  \/ \E name \in Tools, c \in ConnectionIds :
       \E query \in QueriesOf(name), tableName \in NamesOf(name),
          flag \in FlagsOf(name) :
         CallTool(name, c, query, tableName, flag)
  \/ GetConnectionReturned
  \/ \E ok \in BOOLEAN : ManagerReturned(ok)
  \/ \E ok \in BOOLEAN : PgConnectReturned(ok)
  \/ \E ok \in BOOLEAN : PgQueryReturned(ok)
  \/ PgEndReturned
  \/ \E ok \in BOOLEAN : MsConnectReturned(ok)
  \/ \E ok \in BOOLEAN : MsQueryReturned(ok)
  \/ MsCloseReturned
  \/ \E ok \in BOOLEAN : MyConnectReturned(ok)
  \/ \E ok \in BOOLEAN : MyQueryReturned(ok)
  \/ MyEndReturned
  \/ \E late \in BOOLEAN : MyTimedOut(late)
  \/ \E ok \in BOOLEAN : SqliteClosed(ok)
  \/ \E ok \in BOOLEAN : DBeaverExited(ok)
  \/ DBeaverTimedOut

InitQuery == Start({Connections}) /\ probe = NoProbe(<<>>)

NextQuery ==
  \/ StartTimer
  \/ QueryActions

SpecQuery == InitQuery /\ [][NextQuery]_vars

\* ---- the checks on statements, called on their own -------------------------
\* longest statement checked by validateQuery, in pieces
MaxLen == 5
\* longest statement checked by enforceReadOnly, in pieces
MaxPrefix == 3

\* the sequences of at most n elements of P
RECURSIVE SeqsUpTo(_, _)
SeqsUpTo(P, n) ==
  IF n = 0 THEN {<<>>}
  ELSE LET S == SeqsUpTo(P, n - 1)
       IN S \cup {Append(q, x) : q \in S, x \in P}

\* the pieces of the statements handed to validateQuery
ValidatePieces ==
  {"update", "UPDATE", "delete", "from", "where", "select", "shutdown", "t",
   " ", "\n", ";"}

\* words are separated by whitespace or punctuation
Separated(q) == \A i \in 1..(Len(q) - 1) : ~(IsWord(q[i]) /\ IsWord(q[i + 1]))

\* the pieces of the statements handed to enforceReadOnly
ReadOnlyPieces ==
  {"select", "SELECT", "with", "explain", "show", "describe", "desc",
   "pragma", "set", "search_path", "insert", " ", "\n", "*"}

\* the frame of a call of a check
ProbeFrame == UNCHANGED <<managerVars, readOnly, req, adhoc>>

ValidateQuery ==
  /\ probe.fn = "none"
  /\ probe' = [probe EXCEPT !.fn = "validateQuery",
                            !.verdict = validateQuery(probe.input)]
  /\ ProbeFrame

EnforceReadOnly ==
  /\ probe.fn = "none"
  /\ probe' = [probe EXCEPT !.fn = "enforceReadOnly",
                            !.verdict = enforceReadOnly(probe.input)]
  /\ ProbeFrame

InitValidate ==
  /\ Start({Connections})
  /\ ~readOnly
  /\ probe \in {NoProbe(q) : q \in {x \in SeqsUpTo(ValidatePieces, MaxLen) :
                                     Separated(x)}}

NextValidate == ValidateQuery

SpecValidate == InitValidate /\ [][NextValidate]_vars

InitReadOnly ==
  /\ Start({Connections})
  /\ readOnly
  /\ probe \in {NoProbe(q) : q \in SeqsUpTo(ReadOnlyPieces, MaxPrefix)}

NextReadOnly == EnforceReadOnly

SpecReadOnly == InitReadOnly /\ [][NextReadOnly]_vars

\* ---- execute_query over driver strings ------------------------------------
\* the keywords that handleExecuteQuery and executeWithNativeTool look for in
\* a driver string
DriverKeywords ==
  {"sqlite", "postgres", "mssql", "sqlserver", "microsoft", "mysql", "mariadb"}

\* SELECT statements without a row limit
Unlimited == {<<"select", " ", "1">>, <<"SELECT", " ", "*", " ", "from", " ", "t", ";">>}

\* handleExecuteQuery on a connection whose driver string contains the
\* keywords probe.input.driver: the statement handed to executeQuery and the
\* path that executeWithNativeTool takes for it
ExecuteQueryOn ==
  /\ probe.fn = "none"
  /\ probe' = [probe EXCEPT
       !.fn = "execute_query",
       !.verdict = [text |-> limitQuery(probe.input.driver, probe.input.query),
                    route |-> NativeOfDriver(probe.input.driver)]]
  /\ ProbeFrame

InitDriver ==
  /\ Start({Connections})
  /\ ~readOnly
  /\ probe \in {NoProbe([driver |-> d, query |-> q]) :
                  d \in SUBSET DriverKeywords, q \in Unlimited}

NextDriver == ExecuteQueryOn

SpecDriver == InitDriver /\ [][NextDriver]_vars

\* ---- schema comparison: type names ----------------------------------------
\* A type name or a table name is a sequence of pieces: words, numbers,
\* whitespace, "(", ")" and ",".  The words of the names, each with its
\* spelling in upper case and with a capital first letter:
Spellings ==
  ("int" :> <<"INT", "Int">>) @@ ("int4" :> <<"INT4", "Int4">>)
  @@ ("int8" :> <<"INT8", "Int8">>) @@ ("int2" :> <<"INT2", "Int2">>)
  @@ ("bool" :> <<"BOOL", "Bool">>) @@ ("float4" :> <<"FLOAT4", "Float4">>)
  @@ ("float8" :> <<"FLOAT8", "Float8">>) @@ ("varchar" :> <<"VARCHAR", "Varchar">>)
  @@ ("char" :> <<"CHAR", "Char">>) @@ ("integer" :> <<"INTEGER", "Integer">>)
  @@ ("bigint" :> <<"BIGINT", "Bigint">>) @@ ("smallint" :> <<"SMALLINT", "Smallint">>)
  @@ ("boolean" :> <<"BOOLEAN", "Boolean">>) @@ ("real" :> <<"REAL", "Real">>)
  @@ ("double" :> <<"DOUBLE", "Double">>) @@ ("precision" :> <<"PRECISION", "Precision">>)
  @@ ("character" :> <<"CHARACTER", "Character">>)
  @@ ("varying" :> <<"VARYING", "Varying">>)
  @@ ("timestamp" :> <<"TIMESTAMP", "Timestamp">>)
  @@ ("timestamptz" :> <<"TIMESTAMPTZ", "Timestamptz">>)
  @@ ("without" :> <<"WITHOUT", "Without">>) @@ ("with" :> <<"WITH", "With">>)
  @@ ("time" :> <<"TIME", "Time">>) @@ ("zone" :> <<"ZONE", "Zone">>)
  @@ ("numeric" :> <<"NUMERIC", "Numeric">>) @@ ("text" :> <<"TEXT", "Text">>)
  @@ ("a" :> <<"A", "A">>) @@ ("b" :> <<"B", "B">>)
  @@ ("c" :> <<"C", "C">>) @@ ("d" :> <<"D", "D">>)

\* String.prototype.toLowerCase on one piece of a name
lowerCase(p) ==
  IF \E w \in DOMAIN Spellings : p \in {Spellings[w][1], Spellings[w][2]}
  THEN CHOOSE w \in DOMAIN Spellings : p \in {Spellings[w][1], Spellings[w][2]}
  ELSE p

\* String.prototype.toLowerCase on a name
lowerCased(type) == [i \in 1..Len(type) |-> lowerCase(type[i])]

\* \d+
IsNumber(p) == p \in {"2", "10", "11"}

\* /\(\d+(?:,\s*\d+)?\)/ matches the pieces i..j of t
QualifierAt(t, i, j) ==
  /\ i + 2 <= j /\ j <= Len(t)
  /\ t[i] = "(" /\ IsNumber(t[i + 1]) /\ t[j] = ")"
  /\ \/ j = i + 2
     \/ /\ i + 4 <= j
        /\ t[i + 2] = ","
        /\ AllSpace(t, i + 3, j - 2)
        /\ IsNumber(t[j - 1])

\* String.prototype.replace(/\(\d+(?:,\s*\d+)?\)/, ''): the first match goes
removeQualifier(t) ==
  LET matches == {m \in (1..Len(t)) \X (1..Len(t)) : QualifierAt(t, m[1], m[2])}
  IN IF matches = {} THEN t
     ELSE LET m == CHOOSE x \in matches : \A y \in matches : x[1] <= y[1]
          IN SubSeq(t, 1, m[1] - 1) \o SubSeq(t, m[2] + 1, Len(t))

typeMap ==
  (<<"int">> :> <<"integer">>) @@ (<<"int4">> :> <<"integer">>)
  @@ (<<"int8">> :> <<"bigint">>) @@ (<<"int2">> :> <<"smallint">>)
  @@ (<<"bool">> :> <<"boolean">>) @@ (<<"float4">> :> <<"real">>)
  @@ (<<"float8">> :> <<"double", " ", "precision">>)
  @@ (<<"varchar">> :> <<"character", " ", "varying">>)
  @@ (<<"char">> :> <<"character">>)
  @@ (<<"timestamp", " ", "without", " ", "time", " ", "zone">> :> <<"timestamp">>)
  @@ (<<"timestamp", " ", "with", " ", "time", " ", "zone">> :> <<"timestamptz">>)

\* normalizeType that looks the whole lower-cased name up
normalizeTypeKeepsQualifier(type) ==
  LET normalized == trim(lowerCased(type))
  IN IF normalized \in DOMAIN typeMap THEN typeMap[normalized] ELSE normalized

normalizeType(type) ==
  LET normalized == trim(lowerCased(type))
      baseType == trim(removeQualifier(normalized))
  IN IF baseType \in DOMAIN typeMap THEN typeMap[baseType] ELSE baseType

\* the names a type goes by: its canonical name and the synonyms of typeMap
Synonyms(canonical) == {canonical} \cup {k \in DOMAIN typeMap : typeMap[k] = canonical}

\* the canonical type names: those of typeMap and two that it does not hold
CanonicalTypes ==
  {typeMap[k] : k \in DOMAIN typeMap} \cup {<<"numeric">>, <<"text">>}

\* a lower-case name in another letter case (0: as it is)
Cased(name, style) ==
  [i \in 1..Len(name) |->
     IF style = 0 \/ name[i] \notin DOMAIN Spellings THEN name[i]
     ELSE Spellings[name[i]][style]]

\* length and precision qualifiers
Qualifiers ==
  {<<>>, <<"(", "11", ")">>, <<"(", "10", ",", "2", ")">>,
   <<"(", "10", ",", " ", "2", ")">>}

\* a name with a qualifier after its first word or at its end
Qualified(name, qualifier, atEnd) ==
  IF atEnd THEN name \o qualifier
  ELSE <<Head(name)>> \o qualifier \o Tail(name)

NormalizeType ==
  /\ probe.fn = "none"
  /\ probe' = [probe EXCEPT !.fn = "normalizeType",
                            !.verdict = normalizeType(probe.input.spelling)]
  /\ ProbeFrame

\* the spellings of a type: a synonym, in one of three letter cases, with or
\* without a qualifier, with or without blanks around it
SpellingsOf(canonical) ==
  {pad \o Qualified(Cased(n, style), q, atEnd) \o pad :
     n \in Synonyms(canonical), style \in 0..2, q \in Qualifiers,
     atEnd \in BOOLEAN, pad \in {<<>>, <<" ">>}}

InitTypes ==
  /\ Start({Connections})
  /\ ~readOnly
  /\ probe \in UNION {{NoProbe([type |-> c, spelling |-> s]) : s \in SpellingsOf(c)} :
                        c \in CanonicalTypes}

NextTypes == NormalizeType

SpecTypes == InitTypes /\ [][NextTypes]_vars

\* ---- schema comparison: compareSchemas --------------------------------------
\* longest list of tables compared
MaxTables == 2

\* the value of a property that is not set
undefined == "undefined"

\* a ColumnSchema under the key that parseTableSchema stores it under
Column(name, type, nullable, defaultValue) ==
  [id |-> lowerCase(name), name |-> name, type |-> type, nullable |-> nullable,
   defaultValue |-> defaultValue]

\* an IndexSchema under its name
Index(name, columns, unique) ==
  [id |-> name, name |-> name, columns |-> columns, unique |-> unique]

\* the changes between two columns of one key, an entry for each attribute
\* that differs
columnChanges(sourceCol, targetCol) ==
  (IF normalizeType(sourceCol.type) # normalizeType(targetCol.type)
   THEN <<[attribute |-> "type", from |-> sourceCol.type, to |-> targetCol.type]>>
   ELSE <<>>)
  \o (IF sourceCol.nullable # targetCol.nullable
      THEN <<[attribute |-> "nullable", from |-> sourceCol.nullable,
              to |-> targetCol.nullable]>>
      ELSE <<>>)
  \o (IF sourceCol.defaultValue # targetCol.defaultValue
      THEN <<[attribute |-> "default", from |-> sourceCol.defaultValue,
              to |-> targetCol.defaultValue]>>
      ELSE <<>>)

\* the changes between two indexes of one name
indexChanges(sourceIdx, targetIdx) ==
  (IF sourceIdx.columns # targetIdx.columns
   THEN <<[attribute |-> "columns", from |-> sourceIdx.columns,
           to |-> targetIdx.columns]>>
   ELSE <<>>)
  \o (IF sourceIdx.unique # targetIdx.unique
      THEN <<[attribute |-> "unique", from |-> sourceIdx.unique,
              to |-> targetIdx.unique]>>
      ELSE <<>>)

\* compareColumns: the loop over the source columns, then the loop over the
\* target columns that the first loop has not processed; a column of both
\* maps without changes is not reported
compareColumns(sourceColumns, targetColumns) ==
  LET inSource ==
        [i \in 1..Len(sourceColumns) |->
           LET sourceCol == sourceColumns[i]
           IN IF ~MapHas(targetColumns, sourceCol.id)
              THEN [name |-> sourceCol.name, status |-> "removed", changes |-> <<>>]
              ELSE LET changes == columnChanges(sourceCol,
                                                MapGet(targetColumns, sourceCol.id))
                   IN [name |-> sourceCol.name,
                       status |-> IF changes = <<>> THEN "none" ELSE "modified",
                       changes |-> changes]]
      onlyTarget == SelectSeq(targetColumns, LAMBDA e : ~MapHas(sourceColumns, e.id))
  IN SelectSeq(inSource, LAMBDA d : d.status # "none")
     \o [i \in 1..Len(onlyTarget) |->
           [name |-> onlyTarget[i].name, status |-> "added", changes |-> <<>>]]

\* compareIndexes: the same two loops over the indexes
compareIndexes(sourceIndexes, targetIndexes) ==
  LET inSource ==
        [i \in 1..Len(sourceIndexes) |->
           LET sourceIdx == sourceIndexes[i]
           IN IF ~MapHas(targetIndexes, sourceIdx.id)
              THEN [name |-> sourceIdx.name, status |-> "removed", changes |-> <<>>]
              ELSE LET changes == indexChanges(sourceIdx,
                                               MapGet(targetIndexes, sourceIdx.id))
                   IN [name |-> sourceIdx.name,
                       status |-> IF changes = <<>> THEN "none" ELSE "modified",
                       changes |-> changes]]
      onlyTarget == SelectSeq(targetIndexes, LAMBDA e : ~MapHas(sourceIndexes, e.id))
  IN SelectSeq(inSource, LAMBDA d : d.status # "none")
     \o [i \in 1..Len(onlyTarget) |->
           [name |-> onlyTarget[i].name, status |-> "added", changes |-> <<>>]]

\* new Map(tables.map((t) => [t.tableName.toLowerCase(), t]))
RECURSIVE tableMap(_, _)
tableMap(tables, m) ==
  IF tables = <<>> THEN m
  ELSE tableMap(Tail(tables),
                MapSet(m, lowerCase(Head(tables).tableName),
                       [id |-> lowerCase(Head(tables).tableName),
                        table |-> Head(tables)]))

\* the number of differences of a status
countStatus(differences, status) ==
  Len(SelectSeq(differences, LAMBDA d : d.status = status))

\* compareSchemas that reports a table of the target alone as removed
compareSchemasTargetRemoved(sourceTables, targetTables) ==
  LET sourceMap == tableMap(sourceTables, <<>>)
      targetMap == tableMap(targetTables, <<>>)
      differences ==
        [i \in 1..Len(sourceMap) |->
           [tableName |-> sourceMap[i].table.tableName, status |-> "removed",
            columnDiffs |-> <<>>, indexDiffs |-> <<>>]]
        \o [i \in 1..Len(targetMap) |->
              [tableName |-> targetMap[i].table.tableName, status |-> "removed",
               columnDiffs |-> <<>>, indexDiffs |-> <<>>]]
  IN [differences |-> differences,
      summary |-> [tablesAdded |-> 0, tablesRemoved |-> Len(differences),
                   tablesModified |-> 0, totalDifferences |-> Len(differences)]]

compareSchemas(sourceTables, targetTables) ==
  LET sourceMap == tableMap(sourceTables, <<>>)
      targetMap == tableMap(targetTables, <<>>)
      inSource ==
        [i \in 1..Len(sourceMap) |->
           LET sourceTable == sourceMap[i].table
           IN IF ~MapHas(targetMap, sourceMap[i].id)
              THEN [tableName |-> sourceTable.tableName, status |-> "removed",
                    columnDiffs |-> <<>>, indexDiffs |-> <<>>]
              ELSE LET targetTable == MapGet(targetMap, sourceMap[i].id).table
                       columnDiffs == compareColumns(sourceTable.columns,
                                                     targetTable.columns)
                       indexDiffs == compareIndexes(sourceTable.indexes,
                                                    targetTable.indexes)
                   IN [tableName |-> sourceTable.tableName,
                       status |-> IF columnDiffs # <<>> \/ indexDiffs # <<>>
                                  THEN "modified" ELSE "none",
                       columnDiffs |-> columnDiffs, indexDiffs |-> indexDiffs]]
      onlyTarget == SelectSeq(targetMap, LAMBDA e : ~MapHas(sourceMap, e.id))
      differences ==
        SelectSeq(inSource, LAMBDA d : d.status # "none")
        \o [i \in 1..Len(onlyTarget) |->
              [tableName |-> onlyTarget[i].table.tableName, status |-> "added",
               columnDiffs |-> <<>>, indexDiffs |-> <<>>]]
  IN [differences |-> differences,
      summary |-> [tablesAdded |-> countStatus(differences, "added"),
                   tablesRemoved |-> countStatus(differences, "removed"),
                   tablesModified |-> countStatus(differences, "modified"),
                   totalDifferences |-> Len(differences)]]

\* the columns and indexes of the tables compared
Shapes ==
  {[columns |-> <<Column("c", <<"int">>, TRUE, undefined)>>,
    indexes |-> <<Index("i", <<"c">>, FALSE)>>],
   [columns |-> <<Column("C", <<"INT", "(", "11", ")">>, TRUE, undefined)>>,
    indexes |-> <<Index("i", <<"c">>, FALSE)>>],
   [columns |-> <<Column("c", <<"text">>, FALSE, "0"),
                  Column("d", <<"int">>, TRUE, undefined)>>,
    indexes |-> <<Index("i", <<"c">>, TRUE), Index("j", <<"d">>, FALSE)>>]}

TableNames == {"a", "A", "b"}

\* the lists of up to n tables of different names
RECURSIVE TableLists(_)
TableLists(n) ==
  IF n = 0 THEN {<<>>}
  ELSE TableLists(n - 1) \cup
       {Append(l, [tableName |-> nm, columns |-> s.columns, indexes |-> s.indexes]) :
          l \in {x \in TableLists(n - 1) : Len(x) = n - 1},
          nm \in TableNames, s \in Shapes}

DistinctNames(l) ==
  \A i, j \in 1..Len(l) : i # j => l[i].tableName # l[j].tableName

\* compareSchemas(source, target) and, for comparison, compareSchemas with
\* the two lists swapped
CompareSchemas ==
  /\ probe.fn = "none"
  /\ probe' = [probe EXCEPT
       !.fn = "compareSchemas",
       !.verdict = [diff |-> compareSchemas(probe.input.source, probe.input.target),
                    swapped |-> compareSchemas(probe.input.target,
                                               probe.input.source)]]
  /\ ProbeFrame

InitSchemas ==
  /\ Start({Connections})
  /\ ~readOnly
  /\ probe \in {NoProbe([source |-> s, target |-> t]) :
                  s, t \in {l \in TableLists(MaxTables) : DistinctNames(l)}}

NextSchemas == CompareSchemas

SpecSchemas == InitSchemas /\ [][NextSchemas]_vars

\* ---- credentials in responses and in the log ---------------------------------
\* password values of the workspace and of tool arguments
Secrets == {"secret", "hunter2", "s3cret"}

\* redactConnection and redactArgs are imported from utils.js; their source
\* is not in the tree, and they are written here as the specification words
\* them: the value of every password- or secret-shaped field is replaced by
\* a fixed marker.
\* what stands in for a redacted value
Marker == "[REDACTED]"

\* the keys whose values are credentials
SensitiveKeys == {"password", "secret"}

\* an object with the values under sensitive keys replaced by the marker
redactFields(object) ==
  [k \in DOMAIN object |-> IF k \in SensitiveKeys THEN Marker ELSE object[k]]

\* redactConnection: the descriptor with its own fields and those of its
\* properties redacted
redactConnection(conn) ==
  [redactFields(conn) EXCEPT !["properties"] = redactFields(conn.properties)]

\* redactArgs: the arguments of a tool call, redacted
redactArgs(args) == redactFields(args)

\* the descriptor of connection c in the workspace, its password being p
Descriptor(c, p) ==
  [id |-> c, name |-> c, driver |-> c, url |-> "url", user |-> "admin",
   host |-> "localhost", database |-> "db", folder |-> "folder",
   properties |-> [password |-> p, sslmode |-> "require"]]

\* handleListConnections that returns the descriptors as they are
handleListConnectionsUnredacted(connections, includeDetails) ==
  IF includeDetails THEN connections
  ELSE [i \in 1..Len(connections) |->
          [id |-> connections[i].id, name |-> connections[i].name,
           driver |-> connections[i].driver, host |-> connections[i].host,
           database |-> connections[i].database, folder |-> connections[i].folder]]

\* the response of list_connections: the redacted descriptors with
\* includeDetails, otherwise six fields of each descriptor
handleListConnections(connections, includeDetails) ==
  IF includeDetails
  THEN [i \in 1..Len(connections) |-> redactConnection(connections[i])]
  ELSE [i \in 1..Len(connections) |->
          [id |-> connections[i].id, name |-> connections[i].name,
           driver |-> connections[i].driver, host |-> connections[i].host,
           database |-> connections[i].database, folder |-> connections[i].folder]]

\* the response of get_connection_info: the redacted descriptor of the
\* connection, or the error when there is none of that id
handleGetConnectionInfo(connections, connectionId) ==
  IF \E i \in 1..Len(connections) : connections[i].id = connectionId
  THEN <<redactConnection(connections[CHOOSE i \in 1..Len(connections) :
                                        connections[i].id = connectionId])>>
  ELSE <<>>

\* the arguments in the debug line of the CallTool handler
loggedArgs(args) == redactArgs(args)

\* what a tool call sends or logs, for a workspace and the arguments of the
\* call: the response of list_connections or get_connection_info, or the
\* arguments written to the log
Disclosed(fn, input) ==
  CASE fn = "list_connections" ->
         handleListConnections(input.connections, input.args.includeDetails)
    [] fn = "get_connection_info" ->
         handleGetConnectionInfo(input.connections, input.args.connectionId)
    [] OTHER -> <<loggedArgs(input.args)>>

Discloses(fn) ==
  /\ probe.fn = "none"
  /\ probe' = [probe EXCEPT !.fn = fn, !.verdict = Disclosed(fn, probe.input)]
  /\ ProbeFrame

ListConnections == Discloses("list_connections")

GetConnectionInfo == Discloses("get_connection_info")

LogArguments == Discloses("log")

\* a workspace of two connections and the arguments of a call
InitRedact ==
  /\ Start({Connections})
  /\ ~readOnly
  /\ probe \in {NoProbe([connections |-> <<Descriptor("pg", p), Descriptor("my", q)>>,
                         args |-> [connectionId |-> c, includeDetails |-> d,
                                   password |-> r]]) :
                  p \in Secrets, q \in Secrets, r \in Secrets,
                  c \in {"pg", "unknown"}, d \in BOOLEAN}

NextRedact == ListConnections \/ GetConnectionInfo \/ LogArguments

SpecRedact == InitRedact /\ [][NextRedact]_vars

\* ---- claims ---------------------------------------------------------------
\* the pools of connection c that getPool calls in flight are creating
Creating(c) ==
  {task[t].pool : t \in {u \in Tasks : task[u].pc \in {"gp_connect", "bt_pool"}
                                         /\ task[u].conn = c}}

\* C1: for every connection id, getPool calls issued before the first
\* creation has completed resolve to one pool entry and the native pool
\* constructor runs once: at no time are two pools of one id being created,
\* or one being created while another is registered.
C1_OnePoolPerConnection ==
  \A c \in Connections :
    Cardinality(Creating(c) \cup ({pools[c]} \ {0})) <= 1

\* C2: a commitTransaction or rollbackTransaction call returns successfully
\* only for a transaction that no earlier commit or rollback has ended: a
\* later call on the id throws.  (The client of an ended transaction has
\* been released or destroyed.)
C2_LaterFinishThrows ==
  [][\A t \in Tasks :
       FinishReturned(t) => clients[task[t].ser].state = "out"]_vars

\* C3: when commitTransaction or rollbackTransaction throws, the client of
\* the transaction is checked out no longer, whatever the dialect, and the id
\* is registered no longer.
C3_FailedFinishReleases ==
  [][\A t \in Tasks :
       FinishThrew(t) =>
         /\ clients'[task[t].ser].state # "out"
         /\ ~MapHas(transactions', task[t].id)]_vars

\* the pools that the step closes
Closed(c) == poolEnded'[c] \ poolEnded[c]

\* C4: when closeAllPools closes a pool, no transaction is registered and
\* no client checked out of that pool is outstanding.
C4_NothingOpenAtPoolClose ==
  [][\A c \in Connections :
       Closed(c) # {} =>
         /\ transactions' = <<>>
         /\ \A s \in 1..Len(clients') :
              ~(clients'[s].state = "out" /\ clients'[s].conn = c
                  /\ clients'[s].pool \in Closed(c))]_vars

\* rollbackAll of handler h has returned
RolledBackAll(h) ==
  handler[h].pc \in {"closeAllPools", "exited"} /\ handler[h].ids = <<>>
    /\ handler[h].ser = 0

\* closeAllPools of handler h has returned
ClosedAllPools(h) == handler[h].pc = "exited" /\ handler[h].pending = {}

\* C5: the shutdown handler runs rollbackAll to completion, then
\* closeAllPools to completion, then cancels the timer, then exits: a pool
\* is closed only when rollbackAll has returned, the timer is cancelled and
\* the process exits only when closeAllPools has returned, and the process
\* does not exit with the timer armed; a failing rollback or pool close does
\* not change this.
C5_ShutdownOrder ==
  /\ \A h \in Handlers :
       handler[h].pc \in {"closeAllPools", "exited"} => RolledBackAll(h)
  /\ (\E c \in Connections : poolEnded[c] # {}) => \E h \in Handlers : RolledBackAll(h)
  /\ \A h \in Handlers : handler[h].pending # {} => handler[h].pc = "closeAllPools"
  /\ timer = "cleared" => exited
  /\ exited => (timer # "armed" /\ \E h \in Handlers : ClosedAllPools(h))

\* a shutdown that rolled a transaction back (one ROLLBACK failing is
\* included), closed a pool, cancelled the timer and exited
C5_Witness ==
  /\ exited
  /\ timer = "cleared"
  /\ \E h \in Handlers : handler[h].count > 0
  /\ \E c \in Connections : poolEnded[c] # {}

\* the age of entry e exceeds the maxAgeMs of the sweep in flight
Stale(e) == sweep.now - e.startedAt > sweep.maxAge

\* C6: a sweep removes the stale transactions only: a transaction registered
\* when a ROLLBACK awaited by the sweep returns and whose age does not exceed
\* maxAgeMs stays registered and active.
C6_SweepKeepsFresh ==
  [][SweepReturned =>
       \A i \in 1..Len(transactions) :
         ~Stale(transactions[i]) =>
           \E j \in 1..Len(transactions') :
             transactions'[j] = transactions[i]]_vars

\* C7: the client of a registered, active transaction is checked out.
C7_RegisteredClientOut ==
  \A i \in 1..Len(transactions) :
    transactions[i].status = "active" => clients[transactions[i].ser].state = "out"

\* a transaction is registered while the client of another, ended one has
\* been given back to its pool
C7_Witness ==
  /\ transactions # <<>>
  /\ \E s \in 1..Len(clients) : clients[s].state = "released"

\* C8: every transaction in the registry has status active.
C8_RegisteredActive ==
  \A i \in 1..Len(transactions) : transactions[i].status = "active"

\* a transaction is registered after a commit or rollback of another has
\* failed (its Postgres client was destroyed)
C8_Witness ==
  /\ transactions # <<>>
  /\ \E s \in 1..Len(clients) : clients[s].state = "destroyed"

\* C9: a beginTransaction that succeeds registers its transaction under an
\* id that names no registered transaction.
C9_FreshId ==
  [][\A t \in Tasks :
       (BeginBegun(t) /\ transactions' # transactions) =>
         ~MapHas(transactions, task[t].id)]_vars

\* C10: when rollbackAll has returned, it has counted every transaction
\* that was registered when it was called, it has called rollbackTransaction
\* for each of them, and none of them is registered.
C10_RollbackAllComplete ==
  \A h \in Handlers :
    RolledBackAll(h) =>
      /\ handler[h].count = Cardinality(handler[h].snapshot)
      /\ handler[h].skipped = {}
      /\ \A i \in 1..Len(transactions) :
           transactions[i].ser \notin handler[h].snapshot

\* C11: closePool does not throw: whether closing the native pool succeeded
\* or failed, the registry entry of the id is removed when the call returns;
\* a closePool call on an id without a registered pool (never registered, or
\* closed by an earlier call) changes nothing and closes nothing.
C11_ClosePoolBestEffort ==
  [][/\ \A t \in Tasks :
          ClosePoolEnded(t) => (pools'[task[t].conn] = 0 /\ task'[t] = Done)
     /\ \A h \in Handlers, c \in Connections :
          ClosePoolReturned(h, c) => pools'[c] = 0
     /\ \A t \in Tasks, c \in Connections :
          (ClosePoolCall(t, c) /\ pools[c] = 0) =>
            (UNCHANGED poolVars /\ task'[t] = Done)]_vars

\* a pool was closed by a closePool call that has returned, and its id has
\* no entry: a second closePool on the id can be called
C11_Witness ==
  /\ ~exited
  /\ \E c \in Connections :
       /\ poolEnded[c] # {}
       /\ pools[c] = 0
       /\ \A t \in Tasks : task[t].conn # c
       /\ \A h \in Handlers : handler[h].pc = "idle"

\* C12: when a call has returned, no connection opened by a native ad hoc
\* execute path (Postgres, MySQL / MariaDB, SQL Server) is left open.
C12_NativeClosesConnection ==
  req.pc = "idle" =>
    \A i \in 1..Len(adhoc) :
      adhoc[i].kind \in {"postgres", "mysql", "mssql"} => adhoc[i].state # "open"

\* the positions at which a backend call or a subprocess spawned to execute
\* a statement is awaited
BackendAwaits ==
  {"pg_connect", "pg_query", "ms_connect", "ms_query", "my_connect",
   "my_query", "lite_run", "cli_run"}

\* C13: every backend call and every subprocess awaited while a statement is
\* executed carries an explicit timeout.
C13_EveryAwaitTimed == req.pc \in BackendAwaits => req.timed

\* the positions at which a statement is with the backend
StatementAwaits == {"pg_query", "ms_query", "my_query", "lite_run", "cli_run"}

\* a is the beginning of b
IsPrefix(a, b) == Len(a) <= Len(b) /\ SubSeq(b, 1, Len(a)) = a

\* the statement sent makes the backend execute the statement of the caller
RunsStatement(text, stmt) ==
  \E pre \in {<<>>, <<"EXPLAIN", " ", "(", "ANALYZE", ")", " ">>,
               <<"EXPLAIN", " ", "ANALYZE", " ">>} :
    IsPrefix(pre \o stmt, text)

\* the statement modifies data or the schema
Mutating(stmt) ==
  \E word \in {"insert", "update", "delete", "create", "alter", "drop"} :
    StartsSpaced(toLowerCase(trim(stmt)), word)

\* C14: in read-only mode no tool call makes a backend execute a mutating
\* statement supplied by the caller.
C14_ReadOnlyRunsNoMutation ==
  (/\ readOnly
   /\ req.pc \in StatementAwaits
   /\ req.tool \in StatementTools
   /\ RunsStatement(req.text, req.stmt)) => ~Mutating(req.stmt)

\* C15: in read-only mode a call of a write tool is rejected at once, before
\* the connection lookup, any backend call and any operation of the
\* TransactionManager, and no write tool is listed.
C15_WriteToolsDisabled ==
  readOnly =>
    /\ req.tool \in WRITE_TOOLS => (req.pc = "idle" /\ req.reply = "disabled")
    /\ ListedTools \cap WRITE_TOOLS = {}

\* a call of execute_in_transaction has been rejected in read-only mode
C15_Witness ==
  /\ readOnly
  /\ req.tool = "execute_in_transaction"
  /\ req.reply = "disabled"
  /\ ListedTools # {}

\* C16: a call of execute_query goes on to the connection lookup and to the
\* backend only with a statement for which validateQuery and enforceReadOnly
\* both return null, whatever the read-only flag.
C16_ExecuteQueryChecked ==
  (req.tool = "execute_query" /\ req.pc # "idle") =>
    /\ validateQuery(req.stmt) = null
    /\ enforceReadOnly(req.stmt) = null

\* execute_query has sent a statement, with a limit added, while the
\* read-only flag is not set
C16_Witness ==
  /\ ~readOnly
  /\ req.tool = "execute_query"
  /\ req.pc \in StatementAwaits
  /\ req.text # req.stmt

\* s occurs in text
Contains(text, s) ==
  \E i \in 1..(Len(text) - Len(s) + 1) : SubSeq(text, i, i + Len(s) - 1) = s

\* ^[A-Za-z_][A-Za-z0-9_]*$ and at most 128 characters
ValidIdentifier(s) ==
  /\ s # <<>>
  /\ IsLetter(s[1])
  /\ \A i \in 1..Len(s) : IsWordChar(s[i])
  /\ length(s) <= MaxIdentifierLength

Checked == toLowerCase(trim(probe.input))

\* the statement is a DELETE or an UPDATE
IsDeleteOrUpdate(t) == StartsSpaced(t, "delete") \/ StartsSpaced(t, "update")

\* the statement contains the word where
HasWhereToken(t) ==
  \E i \in 1..Len(t) :
    /\ t[i] = "where"
    /\ i > 1 => ~IsWord(t[i - 1])
    /\ i < Len(t) => ~IsWord(t[i + 1])

\* the statement has one of the destructive forms other than DELETE / UPDATE
OtherDestructive(t) ==
  \/ MatchTwo(t, "drop", "database") \/ MatchTwo(t, "drop", "schema")
  \/ MatchTwo(t, "truncate", "table")
  \/ MatchSpaced(t, "grant") \/ MatchSpaced(t, "revoke")
  \/ MatchTwo(t, "create", "user") \/ MatchTwo(t, "drop", "user")
  \/ MatchTwo(t, "alter", "user")
  \/ MatchWord(t, "shutdown") \/ MatchWord(t, "restart")

\* C17: validateQuery rejects every DELETE or UPDATE statement without a
\* WHERE token and accepts every DELETE or UPDATE statement with a WHERE
\* token and no other destructive form.
C17_WhereDetection ==
  (probe.fn = "validateQuery" /\ IsDeleteOrUpdate(Checked)) =>
    /\ ~HasWhereToken(Checked) => probe.verdict # null
    /\ (HasWhereToken(Checked) /\ ~OtherDestructive(Checked)) => probe.verdict = null

\* the keywords that begin a read-only statement
ReadOnlyKeywords ==
  {"select", "with", "explain", "show", "describe", "desc", "pragma"}

\* C18 as stated: enforceReadOnly returns null exactly for the statements
\* that start with one of the read-only keywords or are a set search_path
\* statement.
C18_StartsWithKeyword ==
  probe.fn = "enforceReadOnly" =>
    (probe.verdict = null <=>
       /\ Checked # <<>>
       /\ \/ Checked[1] \in ReadOnlyKeywords
          \/ MatchTwoAt(Checked, 1, "set", "search_path"))

\* C18: enforceReadOnly returns null exactly for the statements that start
\* with one of the read-only keywords followed by whitespace, that are the
\* single word select, or that start with set, whitespace and search_path;
\* for every other statement, the empty one included, it returns a rejection.
C18_KeywordThenSpace ==
  probe.fn = "enforceReadOnly" =>
    (probe.verdict = null <=>
       /\ Checked # <<>>
       /\ \/ Checked[1] \in ReadOnlyKeywords /\ Len(Checked) >= 2
               /\ IsSpace(Checked[2])
          \/ Checked = <<"select">>
          \/ MatchTwoAt(Checked, 1, "set", "search_path"))

\* enforceReadOnly has accepted a statement written in upper case, with
\* whitespace around it
C18_Witness ==
  /\ probe.fn = "enforceReadOnly"
  /\ probe.verdict = null
  /\ probe.input # Checked

\* the statement itself is one of the destructive or administrative forms
StartsDestructive(t) ==
  /\ t # <<>>
  /\ \/ MatchTwoAt(t, 1, "drop", "database") \/ MatchTwoAt(t, 1, "drop", "schema")
     \/ MatchTwoAt(t, 1, "truncate", "table")
     \/ t[1] \in {"delete", "update", "grant", "revoke", "shutdown", "restart"}
     \/ MatchTwoAt(t, 1, "create", "user") \/ MatchTwoAt(t, 1, "drop", "user")
     \/ MatchTwoAt(t, 1, "alter", "user")

\* C19: validateQuery rejects a non-empty statement only when the statement
\* itself is one of the destructive or administrative forms: a statement of
\* another kind is accepted even when one of their words occurs inside it.
C19_AnchoredForms ==
  (probe.fn = "validateQuery" /\ Checked # <<>> /\ probe.verdict # null) =>
    StartsDestructive(Checked)

\* C27: when beginTransaction throws after a client was checked out of the
\* pool (the backend BEGIN failed), no transaction is registered and the
\* client checked out for it is checked out no longer.
C27_FailedBeginReleases ==
  [][\A t \in Tasks :
       (BeginBegun(t) /\ transactions' = transactions
          /\ task[t].ser \in 1..Len(clients)) =>
         clients'[task[t].ser].state # "out"]_vars

\* the COMMIT / ROLLBACK operations that are awaited on client s: those of
\* commitTransaction / rollbackTransaction calls, of the sweep and of
\* rollbackAll
Terminating(s) ==
  {<<"call", t>> : t \in {u \in Tasks : task[u].pc = "fin_wait" /\ task[u].ser = s}}
  \cup {<<"sweep", "sweep">> : x \in {1} \cap {IF sweep.pc = "wait" /\ sweep.ser = s THEN 1 ELSE 0}}
  \cup {<<"rollbackAll", h>> :
          h \in {g \in Handlers : handler[g].pc = "rollbackAll" /\ handler[g].ser = s}}

\* C28: whatever the interleaving of commitTransaction, rollbackTransaction,
\* cleanupStaleTransactions and rollbackAll on one active transaction, at
\* most one COMMIT / ROLLBACK is sent to the backend for it: at no time are
\* two of them awaited on its client.
C28_OneTerminalOperation ==
  \A s \in 1..Len(clients) : Cardinality(Terminating(s)) <= 1

\* C29: getPool never returns a pool whose close has begun: at any time at
\* which a tool call can reach getPool, the entry that getPool would return
\* for a connection is not a pool that end() / close() was called on.
C29_NoClosingPoolReturned ==
  \A c \in workspace :
    (Serving /\ getPoolKind(c) = "existing") =>
      getPoolNumber(c) \notin poolEnded[c]

\* C30: the shutdown sequence runs at most once: at no time are two runs of
\* the shutdown handler between their start and their exit.
C30_OneShutdownRun ==
  Cardinality({h \in Handlers :
                 handler[h].pc \in {"rollbackAll", "closeAllPools"}}) <= 1

\* a drop_table call without confirm that reaches its handler gets the
\* `confirmation required` message and starts nothing
AsksConfirmation(c, tableName) ==
  (CallTool("drop_table", c, <<>>, tableName, FALSE) /\ Permitted("drop_table")) =>
    /\ req'.reply = "unconfirmed"
    /\ req'.pc = "idle"
    /\ adhoc' = adhoc

C23_LimitFollowsRoute ==
  probe.fn = "execute_query" =>
    probe.verdict.text =
      IF probe.verdict.route = "mssql"
      THEN <<"SELECT", " ", "TOP", " ", "n">> \o Tail(probe.input.query)
      ELSE stripSemicolons(probe.input.query) \o <<" ", "LIMIT", " ", "n">>

\* C26: normalizeType maps every spelling of a type (its canonical name and
\* each synonym, in any letter case, with or without a length / precision
\* qualifier) to the canonical name of the type, and maps its own result to
\* itself.
C26_OneCanonicalName ==
  probe.fn = "normalizeType" =>
    /\ probe.verdict = probe.input.type
    /\ normalizeType(probe.verdict) = probe.verdict

\* normalizeType("INT(11)") has returned "integer"
C26_Witness ==
  /\ probe.fn = "normalizeType"
  /\ probe.input.spelling = <<"INT", "(", "11", ")">>
  /\ probe.verdict = <<"integer">>

\* the tables that a comparison reports with a status, as compareSchemas
\* identifies them: by lower-cased name
TablesOf(result, status) ==
  {lowerCase(result.differences[i].tableName) :
     i \in {j \in 1..Len(result.differences) : result.differences[j].status = status}}

\* the columns or indexes that a list of differences reports with a status
EntriesOf(diffs, status) ==
  {lowerCase(diffs[i].name) : i \in {j \in 1..Len(diffs) : diffs[j].status = status}}

\* the difference reported for table k
DiffOf(result, k) ==
  result.differences[CHOOSE i \in 1..Len(result.differences) :
                       lowerCase(result.differences[i].tableName) = k]

\* two lists of differences report the same entries, added for removed
Mirrored(diffs, swapped) ==
  /\ EntriesOf(diffs, "added") = EntriesOf(swapped, "removed")
  /\ EntriesOf(diffs, "removed") = EntriesOf(swapped, "added")
  /\ EntriesOf(diffs, "modified") = EntriesOf(swapped, "modified")

\* C24: compareSchemas with source and target swapped reports the added
\* tables as removed and the removed ones as added, with the two counts
\* swapped, and the same modified tables with the same count; inside a
\* modified table the added and removed columns and indexes are swapped
\* likewise.
C24_SwapMirrors ==
  probe.fn = "compareSchemas" =>
    LET diff == probe.verdict.diff
        swapped == probe.verdict.swapped
    IN /\ TablesOf(diff, "added") = TablesOf(swapped, "removed")
       /\ TablesOf(diff, "removed") = TablesOf(swapped, "added")
       /\ TablesOf(diff, "modified") = TablesOf(swapped, "modified")
       /\ diff.summary.tablesAdded = swapped.summary.tablesRemoved
       /\ diff.summary.tablesRemoved = swapped.summary.tablesAdded
       /\ diff.summary.tablesModified = swapped.summary.tablesModified
       /\ \A k \in TablesOf(diff, "modified") :
            /\ Mirrored(DiffOf(diff, k).columnDiffs, DiffOf(swapped, k).columnDiffs)
            /\ Mirrored(DiffOf(diff, k).indexDiffs, DiffOf(swapped, k).indexDiffs)

\* a comparison has reported a removed table and a modified table with an
\* added column, and the swapped comparison an added table
C24_Witness ==
  /\ probe.fn = "compareSchemas"
  /\ TablesOf(probe.verdict.diff, "removed") # {}
  /\ TablesOf(probe.verdict.swapped, "added") # {}
  /\ \E k \in TablesOf(probe.verdict.diff, "modified") :
       EntriesOf(DiffOf(probe.verdict.diff, k).columnDiffs, "added") # {}

\* the tables of a list, by lower-cased name
KeysOf(tables) == {lowerCase(tables[i].tableName) : i \in 1..Len(tables)}

\* the differences that name table k
Reports(result, k) ==
  {i \in 1..Len(result.differences) :
     lowerCase(result.differences[i].tableName) = k}

\* C25: compareSchemas reports every table of either list exactly once:
\* removed when it is in the source alone, added when it is in the target
\* alone, and otherwise modified or unchanged.
C25_EveryTableReported ==
  probe.fn = "compareSchemas" =>
    \A k \in KeysOf(probe.input.source) \cup KeysOf(probe.input.target) :
      /\ Cardinality(Reports(probe.verdict.diff, k)) = 1
      /\ DiffOf(probe.verdict.diff, k).status =
           IF k \notin KeysOf(probe.input.target) THEN "removed"
           ELSE IF k \notin KeysOf(probe.input.source) THEN "added"
           ELSE IF \/ DiffOf(probe.verdict.diff, k).columnDiffs # <<>>
                   \/ DiffOf(probe.verdict.diff, k).indexDiffs # <<>>
           THEN "modified" ELSE "unchanged"

\* the values held by the objects of a response or of a log line, those of
\* their properties included
ValuesIn(objects) ==
  UNION {{objects[i][k] : k \in DOMAIN objects[i] \ {"properties", "includeDetails"}}
         \cup (IF "properties" \in DOMAIN objects[i]
               THEN {objects[i].properties[k] : k \in DOMAIN objects[i].properties}
               ELSE {}) : i \in 1..Len(objects)}

\* the input with every password replaced by s
WithPasswords(input, s) ==
  [connections |->
     [i \in 1..Len(input.connections) |->
        [input.connections[i] EXCEPT !.properties.password = s]],
   args |-> [input.args EXCEPT !.password = s]]

\* C21: no response of list_connections or get_connection_info and no
\* arguments written to the log hold a password: what is returned or logged
\* is the same whatever the passwords are.
C21_NoPasswordDisclosed ==
  probe.fn \in {"list_connections", "get_connection_info", "log"} =>
    /\ ValuesIn(probe.verdict) \cap Secrets = {}
    /\ \A s \in Secrets :
         probe.verdict = Disclosed(probe.fn, WithPasswords(probe.input, s))

\* list_connections with includeDetails has returned the descriptors, with
\* the marker in the place of the passwords
C21_Witness ==
  /\ probe.fn = "list_connections"
  /\ probe.input.args.includeDetails
  /\ \A i \in 1..Len(probe.verdict) : probe.verdict[i].properties.password = Marker
  /\ Len(probe.verdict) = Len(probe.input.connections)
====
